---- MODULE Spec2Model ----
(***************************************************************************)
(* Stay / discharge-letter reconciliation of api-iqss                      *)
(* (src/src/data_processing.py, src/src/generate_files.py,                 *)
(* src/src/database.py).                                                   *)
(*                                                                         *)
(* A run of generate_report_data is modelled as a state machine: the stay  *)
(* table and the document table are the inputs, merge_sejours_documents,   *)
(* classify_sejours_iql, calculate_validation_stats and                    *)
(* calculate_diffusion_stats are the steps (Spec).  The key normalizer     *)
(* (SpecKey) and the two query functions with their DatabaseConnector      *)
(* (SpecDatabase) have a specification of their own.                       *)
(*                                                                         *)
(* Conventions.  A nullable cell (None / NaN / NaT) is a set with at most  *)
(* one element: {} is null, {v} is the value v.  Timestamps are integers   *)
(* counted in ticks, TicksPerDay ticks to the day; the document dates are  *)
(* whole days (database.py truncates them with .dt.date), the stay         *)
(* timestamps keep their time of day.  Labels are sequences of characters, *)
(* one string each; "e'" and "E'" are the letters e and E with an acute    *)
(* accent.                                                                 *)
(***************************************************************************)
EXTENDS Integers, Sequences, FiniteSets, TLC

VARIABLES
    sejours,          \* the stay table (GAM), a sequence of rows
    documents,        \* the document table (EASILY), a sequence of rows
    doc_columns,      \* the columns of the document table
    matrice_ok,       \* can the specialty mapping at settings.MATRICE_PATH be loaded
    pc,               \* position of generate_report_data
    data,             \* merge_sejours_documents: candidate pairs, criteria and specialty
    data_best,        \* merge_sejours_documents: one row per stay after groupby().first()
    data_final,       \* merge_sejours_documents: the returned table
    classified,       \* classify_sejours_iql: the returned table [cols, rows]
    stats_validation, \* calculate_validation_stats: the returned dictionary
    stats_diffusion,  \* calculate_diffusion_stats: the returned dictionary
    libelle,          \* a document label handed to create_doc_key
    key,              \* the normalized key made of the label
    request,          \* database.py: the caller and the arguments of a query function
    filters,          \* get_sejours_data: the list of the filters
    queries,          \* the queries executed so far: the database and the filters
    conn_gam,         \* DatabaseConnector._conn_gam
    conn_esl,         \* DatabaseConnector._conn_esl
    connections,      \* every connection opened so far: its database, is it closed
    opened            \* connections opened since disconnect_all last returned, by database

\* the variables of the report pipeline, of the key normalizer, of database.py
pipeline_vars == <<sejours, documents, doc_columns, matrice_ok, data, data_best, data_final,
                   classified, stats_validation, stats_diffusion>>
key_vars == <<libelle, key>>
database_vars == <<request, filters, queries, conn_gam, conn_esl, connections, opened>>

vars == <<pipeline_vars, pc, key_vars, database_vars>>

----------------------------------------------------------------------------
(* Bounds of the model *)

MaxSejours == 2
MaxDocuments == 2
TicksPerDay == 2
MaxLibelle == 3
MaxSejourIds == 2
MaxConnections == 2

(* Program constants *)

DocvalWindowDays == 3
DoccreWindowDays == 5
MinCriteria == 2

----------------------------------------------------------------------------
(* Nullable cells *)

Null == {}
Some(v) == {v}
notna(x) == x # {}
isna(x) == x = {}
Val(x) == CHOOSE v \in x : TRUE

\* pandas comparisons: a comparison with a null operand is False
Ge(x, y) == \E a \in x : \E b \in y : a >= b
Le(x, y) == \E a \in x : \E b \in y : a <= b

Days(n) == n * TicksPerDay

\* Timedelta.days: whole days, rounded towards minus infinity
TimedeltaDays(t) == t \div TicksPerDay

Range(s) == {s[i] : i \in 1..Len(s)}

RECURSIVE SelectSeq2(_, _)
\* the rows of s whose index satisfies keep, in order
SelectSeq2(s, keep) ==
    IF s = << >> THEN << >>
    ELSE LET n == Len(s)
             front == SelectSeq2(SubSeq(s, 1, n - 1), keep)
         IN IF n \in keep THEN Append(front, s[n]) ELSE front

RECURSIVE Flatten(_)
Flatten(ss) == IF ss = << >> THEN << >> ELSE Head(ss) \o Flatten(Tail(ss))

----------------------------------------------------------------------------
(* Labels: normalize_text *)

LowerCase ==
    <<"a", "c", "d", "e", "f", "h", "i", "j", "l", "n", "o", "r", "s", "t", "e'">>
UpperCase ==
    <<"A", "C", "D", "E", "F", "H", "I", "J", "L", "N", "O", "R", "S", "T", "E'">>

\* str.upper, str.lower: one character
Upper(c) ==
    IF \E i \in 1..Len(LowerCase) : LowerCase[i] = c
    THEN UpperCase[CHOOSE i \in 1..Len(LowerCase) : LowerCase[i] = c]
    ELSE c

Lower(c) ==
    IF \E i \in 1..Len(UpperCase) : UpperCase[i] = c
    THEN LowerCase[CHOOSE i \in 1..Len(UpperCase) : UpperCase[i] = c]
    ELSE c

\* NFD decomposition with the combining marks (category Mn) dropped
Unaccent(c) ==
    CASE c = "E'" -> "E"
      [] c = "e'" -> "e"
      [] OTHER -> c

RECURSIVE LStrip(_)
LStrip(s) == IF s # << >> /\ Head(s) = " " THEN LStrip(Tail(s)) ELSE s

RECURSIVE RStrip(_)
RStrip(s) ==
    IF s # << >> /\ s[Len(s)] = " " THEN RStrip(SubSeq(s, 1, Len(s) - 1)) ELSE s

Strip(s) == RStrip(LStrip(s))

normalize_text(text) ==
    IF isna(text) THEN Null
    ELSE LET t == Strip([i \in 1..Len(Val(text)) |-> Upper(Val(text)[i])])
         IN Some([i \in 1..Len(t) |-> Unaccent(t[i])])

----------------------------------------------------------------------------
(* Labels: create_doc_key *)

\* the characters of a Python string literal
Chars(str) == [i \in 1..Len(str) |-> SubSeq(str, i, i)]

patterns_to_remove ==
    << Chars("cr lettre de liaison"), Chars("lettre de liaison"), Chars("cr"),
       Chars("foch"), Chars("hdj"), Chars("cs"), Chars("\\."), Chars("ll") >>

RECURSIVE Replace(_, _)
\* str.replace(pattern, ""): the occurrences are found from left to right
Replace(s, pattern) ==
    IF Len(s) < Len(pattern) THEN s
    ELSE IF SubSeq(s, 1, Len(pattern)) = pattern
         THEN Replace(SubSeq(s, Len(pattern) + 1, Len(s)), pattern)
         ELSE << Head(s) >> \o Replace(Tail(s), pattern)

RECURSIVE ReplaceEach(_, _)
\* the loop of lines 102-103
ReplaceEach(s, patterns) ==
    IF patterns = << >> THEN s
    ELSE ReplaceEach(Replace(s, Head(patterns)), Tail(patterns))

\* str(None)
NoneStr == Chars("None")

\* variant: no test of pd.isna, the label goes through str()
create_doc_key_NoGuard(lib) ==
    LET text == IF isna(lib) THEN NoneStr ELSE Val(lib)
        lowered == Strip([i \in 1..Len(text) |-> Lower(text[i])])
    IN Strip(ReplaceEach(lowered, patterns_to_remove))

\* the key of a label; lib is a nullable cell, the key is a string
create_doc_key(lib) ==
    IF isna(lib) THEN << >>
    ELSE LET lowered == Strip([i \in 1..Len(Val(lib)) |-> Lower(Val(lib)[i])])
         IN Strip(ReplaceEach(lowered, patterns_to_remove))

\* lines 150-151 and 259-261: the label of a document becomes its doc_key, the
\* doc_key its doc_key_norm
doc_key_norm(lib) == normalize_text(Some(create_doc_key(lib)))

----------------------------------------------------------------------------
(* The specialty mapping file *)

MatriceFile ==
    << [sej_uf |-> "101", doc_key |-> Some(<<"R", "e'", "a">>), sej_spe |-> "REANIMATION"],
       [sej_uf |-> "101", doc_key |-> Some(<<"r", "e", "a", " ">>), sej_spe |-> "CARDIOLOGIE"],
       [sej_uf |-> "202", doc_key |-> Some(<<"o", "r", "l">>), sej_spe |-> "ORL"] >>

\* variant: the duplicates are kept
drop_duplicates_KeepAll(m) == m

\* drop_duplicates(subset=[sej_uf, doc_key_norm], keep="first")
drop_duplicates_first(m) ==
    SelectSeq2(m, {i \in 1..Len(m) :
        ~\E j \in 1..(i - 1) :
            m[j].sej_uf = m[i].sej_uf /\ m[j].doc_key_norm = m[i].doc_key_norm})

load_matrice_specialite ==
    drop_duplicates_first(
        [i \in 1..Len(MatriceFile) |->
            [sej_uf |-> MatriceFile[i].sej_uf,
             doc_key_norm |-> normalize_text(MatriceFile[i].doc_key),
             sej_spe |-> MatriceFile[i].sej_spe]])

\* left join on (sej_uf, doc_key_norm): the sej_spe cells a row is joined to,
\* one for each mapping row of its unit and key in the order of the mapping,
\* a single null when there is none
LookupSpe(matrice, uf, key_norm) ==
    LET hits == SelectSeq2(matrice, {i \in 1..Len(matrice) :
                    matrice[i].sej_uf = uf /\ matrice[i].doc_key_norm = key_norm})
    IN IF hits = << >> THEN << Null >>
       ELSE [k \in 1..Len(hits) |-> Some(hits[k].sej_spe)]

----------------------------------------------------------------------------
(* merge_sejours_documents: candidate join *)

\* Series.astype(str) on the patient id: None becomes the string "None"
astype_str(ipp) == IF isna(ipp) THEN "None" ELSE Val(ipp)

\* lines 146-147: table["pat_ipp"] = table["pat_ipp"].astype(str)
PatIppAsStr(t) == [i \in 1..Len(t) |-> [t[i] EXCEPT !.pat_ipp = Some(astype_str(@))]]

\* The tables are Python objects held by reference. A heap is the sequence of
\* the table objects of a call, a reference is an index of it: the arguments
\* come first, in the order of the parameters.

\* variant: the name is bound to the table it was given, no copy is made
copy_Alias(heap, ref) == [heap |-> heap, ref |-> ref]

\* DataFrame.copy(): a new object with the rows of the one referred to
copy(heap, ref) == [heap |-> Append(heap, heap[ref]), ref |-> Len(heap) + 1]

\* df[column] = values: the object referred to is written in place, every name
\* bound to it sees the new value
setitem(heap, ref, table) == [heap EXCEPT ![ref] = table]

\* lines 140-147 of merge_sejours_documents(sejours, documents): both names
\* are bound again to copies, then pat_ipp is written in the tables the
\* names refer to
MergeArguments(sej, docs) ==
    LET sejours_copy == copy(<<sej, docs>>, 1)
        documents_copy == copy(sejours_copy.heap, 2)
        written == setitem(documents_copy.heap, sejours_copy.ref,
                           PatIppAsStr(documents_copy.heap[sejours_copy.ref]))
    IN [heap |-> setitem(written, documents_copy.ref,
                         PatIppAsStr(written[documents_copy.ref])),
        sejours |-> sejours_copy.ref,
        documents |-> documents_copy.ref]

\* the document columns of a stay that matched no document
NoDocument ==
    [doc_id |-> Null, doc_cre |-> Null, doc_val |-> Null, doc_venue |-> Null,
     doc_creamere |-> Null, doc_modmere |-> Null, doc_key |-> Null,
     doc_spe |-> Null, date_diffusion |-> Null]

DocumentColumns(d) ==
    [doc_id |-> Some(d.doc_id), doc_cre |-> d.doc_cre, doc_val |-> d.doc_val,
     doc_venue |-> d.doc_venue, doc_creamere |-> d.doc_creamere,
     doc_modmere |-> d.doc_modmere, doc_key |-> Some(d.doc_key),
     doc_spe |-> d.doc_spe, date_diffusion |-> d.date_diffusion]

SejourColumns(s) ==
    [sej_id |-> s.sej_id, pat_ipp |-> astype_str(s.pat_ipp), sej_ent |-> s.sej_ent,
     sej_sor |-> s.sej_sor, sej_uf |-> s.sej_uf]

\* variant: a cross join, every document is paired with every stay
LeftJoinOne_Cross(s, docs) ==
    IF docs = << >> THEN << SejourColumns(s) @@ NoDocument >>
    ELSE [k \in 1..Len(docs) |-> SejourColumns(s) @@ DocumentColumns(docs[k])]

\* the rows a left join gives one stay: one per document of the same patient id,
\* in document order, or a single row with null document columns
LeftJoinOne(s, docs) ==
    LET hits == SelectSeq2(docs, {j \in 1..Len(docs) :
                    astype_str(docs[j].pat_ipp) = astype_str(s.pat_ipp)})
    IN IF hits = << >> THEN << SejourColumns(s) @@ NoDocument >>
       ELSE [k \in 1..Len(hits) |-> SejourColumns(s) @@ DocumentColumns(hits[k])]

\* sejours.merge(documents, on="pat_ipp", how="left")
CandidateJoin(sej, docs) ==
    Flatten([i \in 1..Len(sej) |-> LeftJoinOne(sej[i], docs)])

----------------------------------------------------------------------------
(* merge_sejours_documents: criteria *)

\* variant: the venue number is read without a test
RequiredColumns_WithVenue == {"pat_ipp", "doc_id", "doc_cre", "doc_val", "doc_key", "doc_venue"}

\* the document columns merge_sejours_documents reads without testing that
\* the table holds them, and the ones it tests for
RequiredColumns == {"pat_ipp", "doc_id", "doc_cre", "doc_val", "doc_key"}

OptionalColumns == {"doc_venue", "doc_creamere", "doc_modmere"}

\* data[c] on a table without the column c
KeyError(cols) == ~(RequiredColumns \subseteq cols)

\* cols is the set of the columns of the document table; a row holds null in
\* a column the table does not have
sdt_docven(r, cols) == "doc_venue" \in cols /\ r.doc_venue = Some(r.sej_id)

\* variant: the window before the discharge alone
sdt_docval_WindowOnly(r) ==
    Ge(r.doc_val, Some(r.sej_sor - Days(DocvalWindowDays)))

sdt_docval(r) ==
    /\ Ge(r.doc_val, Some(r.sej_ent))
    /\ Ge(r.doc_val, Some(r.sej_sor - Days(DocvalWindowDays)))

sdt_smere(r, cols) ==
    \/ ~({"doc_creamere", "doc_modmere"} \subseteq cols)
    \/ isna(r.doc_creamere)
    \/ Le(r.doc_creamere, Some(r.sej_sor))
    \/ Le(r.doc_modmere, Some(r.sej_sor))

sdt_doccre(r) == Ge(r.doc_cre, Some(r.sej_ent - Days(DoccreWindowDays)))

sdt_doccref(r) ==
    /\ Ge(r.doc_cre, Some(r.sej_ent))
    /\ Le(r.doc_cre, Some(r.sej_sor))

sdt_emere(r, cols) ==
    \/ ~({"doc_creamere", "doc_modmere"} \subseteq cols)
    \/ isna(r.doc_creamere)
    \/ Ge(r.doc_creamere, Some(r.sej_ent - Days(DoccreWindowDays)))
    \/ Ge(r.doc_modmere, Some(r.sej_ent - Days(DoccreWindowDays)))

AsInt(b) == IF b THEN 1 ELSE 0

\* variant: two of the three criteria are enough
sdt_status_AtLeastTwo(r, cols) ==
    AsInt(sdt_docval(r)) + AsInt(sdt_smere(r, cols)) + AsInt(sdt_doccre(r)) >= MinCriteria

sdt_status(r, cols) ==
    AsInt(sdt_docval(r)) + AsInt(sdt_smere(r, cols)) + AsInt(sdt_doccre(r)) > MinCriteria

\* np.where(sdt_status, (doc_val - sej_sor).dt.days, nan)
del_sorval(r, cols) ==
    IF sdt_status(r, cols) /\ notna(r.doc_val)
    THEN Some(TimedeltaDays(Val(r.doc_val) - r.sej_sor))
    ELSE Null

Criteria(r, cols) ==
    r @@ [sdt_docven |-> sdt_docven(r, cols), sdt_docval |-> sdt_docval(r),
          sdt_smere |-> sdt_smere(r, cols), sdt_doccre |-> sdt_doccre(r),
          sdt_doccref |-> sdt_doccref(r), sdt_emere |-> sdt_emere(r, cols),
          sdt_status |-> sdt_status(r, cols), del_sorval |-> del_sorval(r, cols)]

----------------------------------------------------------------------------
(* merge_sejours_documents: specialty join *)

\* the try block: the rows the join with the mapping gives the row r when it
\* loads, r with sej_spe = None when load_matrice_specialite raises
SpecialtyJoin(r, ok) ==
    LET key_norm == IF ok THEN normalize_text(r.doc_key) ELSE Null
        spes == IF ok THEN LookupSpe(load_matrice_specialite, r.sej_uf, key_norm)
                ELSE << Null >>
    IN [k \in 1..Len(spes) |->
           r @@ [doc_key_norm |-> key_norm, sej_spe |-> spes[k],
                 has_spe |-> notna(spes[k])]]

\* the row r as a record of the columns it holds: the columns of the merged
\* table, with the columns classify_sejours_iql adds when r holds them. The
\* value is r; a record is the form TLC stores fastest.
AsRow(r) ==
    IF "sej_spe_old" \in DOMAIN r THEN
        [sej_id |-> r.sej_id, pat_ipp |-> r.pat_ipp, sej_ent |-> r.sej_ent,
         sej_sor |-> r.sej_sor, sej_uf |-> r.sej_uf, doc_id |-> r.doc_id,
         doc_cre |-> r.doc_cre, doc_val |-> r.doc_val,
         doc_venue |-> r.doc_venue, doc_creamere |-> r.doc_creamere,
         doc_modmere |-> r.doc_modmere, doc_key |-> r.doc_key,
         doc_spe |-> r.doc_spe, date_diffusion |-> r.date_diffusion,
         sdt_docven |-> r.sdt_docven, sdt_docval |-> r.sdt_docval,
         sdt_smere |-> r.sdt_smere, sdt_doccre |-> r.sdt_doccre,
         sdt_doccref |-> r.sdt_doccref, sdt_emere |-> r.sdt_emere,
         sdt_status |-> r.sdt_status, del_sorval |-> r.del_sorval,
         doc_key_norm |-> r.doc_key_norm, sej_spe |-> r.sej_spe,
         has_spe |-> r.has_spe, sej_spe_final |-> r.sej_spe_final,
         del_val |-> r.del_val, sej_classe |-> r.sej_classe,
         sej_spe_old |-> r.sej_spe_old, sej_spe_matrice |-> r.sej_spe_matrice]
    ELSE IF "sej_classe" \in DOMAIN r THEN
        [sej_id |-> r.sej_id, pat_ipp |-> r.pat_ipp, sej_ent |-> r.sej_ent,
         sej_sor |-> r.sej_sor, sej_uf |-> r.sej_uf, doc_id |-> r.doc_id,
         doc_cre |-> r.doc_cre, doc_val |-> r.doc_val,
         doc_venue |-> r.doc_venue, doc_creamere |-> r.doc_creamere,
         doc_modmere |-> r.doc_modmere, doc_key |-> r.doc_key,
         doc_spe |-> r.doc_spe, date_diffusion |-> r.date_diffusion,
         sdt_docven |-> r.sdt_docven, sdt_docval |-> r.sdt_docval,
         sdt_smere |-> r.sdt_smere, sdt_doccre |-> r.sdt_doccre,
         sdt_doccref |-> r.sdt_doccref, sdt_emere |-> r.sdt_emere,
         sdt_status |-> r.sdt_status, del_sorval |-> r.del_sorval,
         doc_key_norm |-> r.doc_key_norm, sej_spe |-> r.sej_spe,
         has_spe |-> r.has_spe, sej_spe_final |-> r.sej_spe_final,
         del_val |-> r.del_val, sej_classe |-> r.sej_classe]
    ELSE
        [sej_id |-> r.sej_id, pat_ipp |-> r.pat_ipp, sej_ent |-> r.sej_ent,
         sej_sor |-> r.sej_sor, sej_uf |-> r.sej_uf, doc_id |-> r.doc_id,
         doc_cre |-> r.doc_cre, doc_val |-> r.doc_val,
         doc_venue |-> r.doc_venue, doc_creamere |-> r.doc_creamere,
         doc_modmere |-> r.doc_modmere, doc_key |-> r.doc_key,
         doc_spe |-> r.doc_spe, date_diffusion |-> r.date_diffusion,
         sdt_docven |-> r.sdt_docven, sdt_docval |-> r.sdt_docval,
         sdt_smere |-> r.sdt_smere, sdt_doccre |-> r.sdt_doccre,
         sdt_doccref |-> r.sdt_doccref, sdt_emere |-> r.sdt_emere,
         sdt_status |-> r.sdt_status, del_sorval |-> r.del_sorval,
         doc_key_norm |-> r.doc_key_norm, sej_spe |-> r.sej_spe,
         has_spe |-> r.has_spe]

\* the rows of a table as records
AsRows(t) == [i \in 1..Len(t) |-> AsRow(t[i])]

\* lines 171-289 on the joined table: the criteria, then the specialty join
CriteriaAndSpecialty(joined, cols, ok) ==
    Flatten([i \in 1..Len(joined) |-> SpecialtyJoin(Criteria(joined[i], cols), ok)])

Candidates(sej, docs, cols, ok) ==
    AsRows(CriteriaAndSpecialty(CandidateJoin(sej, docs), cols, ok))

----------------------------------------------------------------------------
(* merge_sejours_documents: ranking and selection *)

\* a stable sort: the rows of s in the order given by before, the set of the
\* pairs <<i, j>> with row i strictly before row j; ties keep the order of s
StableSort(s, before) ==
    LET n == Len(s)
        place == [i \in 1..n |->
                    1 + Cardinality({j \in 1..n :
                            \/ <<j, i>> \in before
                            \/ (<<i, j>> \notin before /\ j < i)})]
    IN [k \in 1..n |-> s[CHOOSE i \in 1..n : place[i] = k]]

\* the pairs of positions of s
Pairs(s) == (1..Len(s)) \X (1..Len(s))

\* ascending, na_position="last"
DelayBefore(x, y) ==
    IF isna(x) THEN FALSE ELSE IF isna(y) THEN TRUE ELSE Val(x) < Val(y)

\* variant: the order of the first pass (specialty, then delay) used for selection
RankBefore_Pass1(a, b) ==
    IF a.sej_id # b.sej_id THEN a.sej_id < b.sej_id
    ELSE IF a.has_spe # b.has_spe THEN a.has_spe
    ELSE DelayBefore(a.del_sorval, b.del_sorval)

\* sort_values(by=[sej_id, has_spe, sdt_docven, sdt_emere, sdt_status,
\*                 sdt_doccref, del_sorval],
\*             ascending=[True, False, False, False, False, False, True])
RankBefore(a, b) ==
    IF a.sej_id # b.sej_id THEN a.sej_id < b.sej_id
    ELSE IF a.has_spe # b.has_spe THEN a.has_spe
    ELSE IF a.sdt_docven # b.sdt_docven THEN a.sdt_docven
    ELSE IF a.sdt_emere # b.sdt_emere THEN a.sdt_emere
    ELSE IF a.sdt_status # b.sdt_status THEN a.sdt_status
    ELSE IF a.sdt_doccref # b.sdt_doccref THEN a.sdt_doccref
    ELSE DelayBefore(a.del_sorval, b.del_sorval)

data_sorted(d) == StableSort(d, {p \in Pairs(d) : RankBefore(d[p[1]], d[p[2]])})

\* the columns that can hold a null
NullableColumns ==
    {"doc_id", "doc_cre", "doc_val", "doc_venue", "doc_creamere", "doc_modmere",
     "doc_key", "doc_spe", "date_diffusion", "del_sorval", "doc_key_norm", "sej_spe"}

\* GroupBy.first() of one column: the first non-null value of the group, or null
FirstValid(g, c) ==
    LET valid == {i \in 1..Len(g) : notna(g[i][c])}
    IN IF valid = {} THEN Null
       ELSE g[CHOOSE i \in valid : \A j \in valid : i <= j][c]

FirstOfGroup(g) ==
    AsRow([c \in DOMAIN g[1] |->
            IF c \in NullableColumns THEN FirstValid(g, c) ELSE g[1][c]])

SortedIds(ids) ==
    LET n == Cardinality(ids)
    IN [k \in 1..n |-> CHOOSE x \in ids : Cardinality({y \in ids : y < x}) = k - 1]

\* variant: every candidate row is kept
GroupByFirst_KeepAll(sorted) == sorted

\* data_sorted.groupby("sej_id", as_index=False).first()
GroupByFirst(sorted) ==
    LET ids == SortedIds({sorted[i].sej_id : i \in 1..Len(sorted)})
    IN [k \in 1..Len(ids) |->
          FirstOfGroup(SelectSeq2(sorted,
                          {i \in 1..Len(sorted) : sorted[i].sej_id = ids[k]}))]

----------------------------------------------------------------------------
(* merge_sejours_documents: documents selected by several stays *)

\* doc_counts[doc_counts > 1].index
multi_sejour_docs(best) ==
    {d \in UNION {best[i].doc_id : i \in 1..Len(best)} :
        Cardinality({i \in 1..Len(best) : best[i].doc_id = Some(d)}) > 1}

ClosestBefore(a, b) == DelayBefore(a.del_sorval, b.del_sorval)

\* variant: the last row of the sorted group keeps the document
closest_sej_Last(best, d) ==
    LET doc_sejours == SelectSeq2(best, {i \in 1..Len(best) : best[i].doc_id = Some(d)})
        doc_sejours_sorted == StableSort(doc_sejours,
            {p \in Pairs(doc_sejours) : ClosestBefore(doc_sejours[p[1]], doc_sejours[p[2]])})
    IN doc_sejours_sorted[Len(doc_sejours_sorted)].sej_id

\* doc_sejours.sort_values("del_sorval").iloc[0]["sej_id"]
closest_sej(best, d) ==
    LET doc_sejours == SelectSeq2(best, {i \in 1..Len(best) : best[i].doc_id = Some(d)})
        doc_sejours_sorted == StableSort(doc_sejours,
            {p \in Pairs(doc_sejours) : ClosestBefore(doc_sejours[p[1]], doc_sejours[p[2]])})
    IN doc_sejours_sorted[1].sej_id

\* variant: no document is treated as shared
ResolveMultiSejours_Skip(best) == best

\* variant: the stays that lose a document are removed from data_best
ResolveMultiSejours_Drop(best) ==
    SelectSeq2(best, {i \in 1..Len(best) :
        ~(/\ notna(best[i].doc_id)
          /\ Val(best[i].doc_id) \in multi_sejour_docs(best)
          /\ best[i].sej_id # closest_sej(best, Val(best[i].doc_id)))})

\* variant: the stays that lose a document lose its validation date too
ResolveMultiSejours_Unvalidate(best) ==
    [i \in 1..Len(best) |->
        IF /\ notna(best[i].doc_id)
           /\ Val(best[i].doc_id) \in multi_sejour_docs(best)
           /\ best[i].sej_id # closest_sej(best, Val(best[i].doc_id))
        THEN [best[i] EXCEPT !.del_sorval = Null, !.doc_val = Null]
        ELSE best[i]]

\* the loop over multi_sejour_docs: del_sorval = NaN for every stay on the
\* document but the closest
ResolveMultiSejours(best) ==
    LET multi == multi_sejour_docs(best)
        loses(r) == /\ notna(r.doc_id)
                    /\ Val(r.doc_id) \in multi
                    /\ r.sej_id # closest_sej(best, Val(r.doc_id))
    IN [i \in 1..Len(best) |->
          IF loses(best[i]) THEN [best[i] EXCEPT !.del_sorval = Null] ELSE best[i]]

----------------------------------------------------------------------------
(* merge_sejours_documents: stays without a row in data_best *)

\* lines 352-355: every column of data_best the stays lack is added as NaN,
\* the boolean ones included
MissingColumns ==
    NoDocument @@
    [sdt_docven |-> Null, sdt_docval |-> Null, sdt_smere |-> Null,
     sdt_doccre |-> Null, sdt_doccref |-> Null, sdt_emere |-> Null,
     sdt_status |-> Null, del_sorval |-> Null, doc_key_norm |-> Null,
     sej_spe |-> Null, has_spe |-> Null]

sejours_sans_doc(sej, best) ==
    LET kept == {best[i].sej_id : i \in 1..Len(best)}
        rest == SelectSeq2(sej, {i \in 1..Len(sej) : sej[i].sej_id \notin kept})
    IN [k \in 1..Len(rest) |-> AsRow(SejourColumns(rest[k]) @@ MissingColumns)]

\* pd.concat([data_best, sejours_sans_doc], ignore_index=True)
ConcatSansDoc(sej, best) == best \o sejours_sans_doc(sej, best)

merge_sejours_documents(sej, docs, cols, ok) ==
    ConcatSansDoc(sej,
        ResolveMultiSejours(GroupByFirst(data_sorted(Candidates(sej, docs, cols, ok)))))

----------------------------------------------------------------------------
(* classify_sejours_iql *)

\* a table is [cols, rows]: cols names the optional columns that exist, a row
\* holds null in a column that does not
Column(r, c) == IF c \in DOMAIN r THEN r[c] ELSE Null

MergedTable(rows, ok) ==
    [cols |-> {"sej_spe"} \cup (IF ok THEN {"doc_key_norm"} ELSE {}), rows |-> rows]

\* max(0, del_sorval) when del_sorval and sej_spe_final are present, else NaN
del_val(r) ==
    IF notna(r.del_sorval) /\ notna(r.sej_spe_final)
    THEN Some(IF Val(r.del_sorval) > 0 THEN Val(r.del_sorval) ELSE 0)
    ELSE Null

\* variant: the second assignment also takes the rows with del_val == 0
sej_classe_LateFromZero(dv) ==
    IF notna(dv) /\ Val(dv) >= 0 THEN "1j+" ELSE "sansLL"

sej_classe(dv) ==
    IF notna(dv) /\ Val(dv) = 0 THEN "0j"
    ELSE IF notna(dv) /\ Val(dv) > 0 THEN "1j+"
    ELSE "sansLL"

\* lines 459-480: del_val and sej_classe from del_sorval and sej_spe_final
Classification(r) ==
    LET dv == del_val(r)
    IN [del_val |-> dv, sej_classe |-> sej_classe(dv)] @@ r

\* variant: the fallback goes on to classify with doc_spe as the specialty
ClassifyFallback_Classify(df) ==
    [cols |-> df.cols \cup {"sej_spe_final", "del_val", "sej_classe"},
     rows |-> [i \in 1..Len(df.rows) |->
                Classification([sej_spe_final |-> df.rows[i].doc_spe] @@ df.rows[i])]]

\* lines 419-424: the mapping cannot be loaded
ClassifyFallback(df) ==
    [cols |-> df.cols \cup {"sej_spe_final", "sej_classe"},
     rows |-> [i \in 1..Len(df.rows) |->
                AsRow([sej_spe_final |-> df.rows[i].doc_spe, sej_classe |-> "sansLL",
                       del_val |-> Column(df.rows[i], "del_val")] @@ df.rows[i])]]

\* lines 427-449: the join with the mapping inside classify_sejours_iql
ClassifyJoin(df) ==
    LET overlap == "sej_spe" \in df.cols
        cols == IF overlap
                THEN (df.cols \ {"sej_spe"}) \cup {"sej_spe_old", "sej_spe_matrice"}
                ELSE df.cols \cup {"sej_spe"}
        joined(r) ==
            LET key_norm == normalize_text(r.doc_key)
                spes == LookupSpe(load_matrice_specialite, r.sej_uf, key_norm)
                old == Column(r, "sej_spe_old")
                mat == Column(r, "sej_spe_matrice")
            IN [k \in 1..Len(spes) |->
                   [doc_key_norm |-> key_norm,
                    sej_spe |-> IF overlap THEN Null ELSE spes[k],
                    sej_spe_old |-> IF overlap THEN r.sej_spe ELSE old,
                    sej_spe_matrice |-> IF overlap THEN spes[k] ELSE mat] @@ r]
        final(r) ==
            [sej_spe_final |-> IF "sej_spe_matrice" \in cols THEN r.sej_spe_matrice
                               ELSE IF "sej_spe" \in cols THEN r.sej_spe
                               ELSE Null] @@ r
    IN [cols |-> cols \cup {"doc_key_norm", "sej_spe_final"},
        rows |-> Flatten([i \in 1..Len(df.rows) |->
                    LET merged == joined(df.rows[i])
                    IN [k \in 1..Len(merged) |-> final(merged[k])]])]

\* variant: the test looks at the column classify_sejours_iql writes
AlreadyJoined_Final(df) ==
    "sej_spe_final" \in df.cols /\ \E i \in 1..Len(df.rows) : notna(df.rows[i].sej_spe_final)

\* line 406: the specialty was joined in merge_sejours_documents
AlreadyJoined(df) ==
    "sej_spe" \in df.cols /\ \E i \in 1..Len(df.rows) : notna(df.rows[i].sej_spe)

\* lines 406-449: the table with its sej_spe_final column
WithSpeFinal(df) ==
    IF AlreadyJoined(df)
    THEN [cols |-> df.cols \cup {"sej_spe_final"},
          rows |-> [i \in 1..Len(df.rows) |->
                      [sej_spe_final |-> df.rows[i].sej_spe] @@ df.rows[i]]]
    ELSE ClassifyJoin(df)

\* lines 459-480 on the table with its sej_spe_final column
Classify(with_spe) ==
    [cols |-> with_spe.cols \cup {"del_val", "sej_classe"},
     rows |-> [i \in 1..Len(with_spe.rows) |-> AsRow(Classification(with_spe.rows[i]))]]

classify_sejours_iql(df, ok) ==
    IF ~AlreadyJoined(df) /\ ~ok THEN ClassifyFallback(df)
    ELSE Classify(WithSpeFinal(df))

\* lines 427-433: df["sej_uf"] and df["doc_key_norm"] written before the join
JoinKeys(df) ==
    [cols |-> df.cols \cup {"doc_key_norm"},
     rows |-> [i \in 1..Len(df.rows) |->
                [df.rows[i] EXCEPT !.doc_key_norm = normalize_text(df.rows[i].doc_key)]]]

\* the objects of a call classify_sejours_iql(df): line 399 binds df to a
\* copy; the columns are written in the table df refers to, and df.merge
\* (line 436) returns a new table. ret refers to the table returned.
ClassifyCall(df, ok) ==
    LET df_copy == copy(<<df>>, 1)
        local == df_copy.heap[df_copy.ref]
    IN IF AlreadyJoined(local) \/ ~ok
       THEN [heap |-> setitem(df_copy.heap, df_copy.ref, classify_sejours_iql(local, ok)),
             ret |-> df_copy.ref]
       ELSE LET keyed == setitem(df_copy.heap, df_copy.ref, JoinKeys(local))
            IN [heap |-> Append(keyed, classify_sejours_iql(keyed[df_copy.ref], ok)),
                ret |-> Len(keyed) + 1]

----------------------------------------------------------------------------
(* calculate_validation_stats, calculate_diffusion_stats *)

\* a float is the fraction <<numerator, denominator>>; NaN is the empty tuple
NaN == << >>
Zero == <<0, 1>>
Fraction(n, d) == IF d = 0 THEN NaN ELSE <<n, d>>

\* float(x) if not pd.isna(x) else 0.0
NanToZero(x) == IF x = NaN THEN Zero ELSE x

\* a column of a table: the sequence of its cells
Series(rows, c) == [i \in 1..Len(rows) |-> rows[i][c]]

\* Series.notna()
SeriesNotna(cells) == [i \in 1..Len(cells) |-> notna(cells[i])]

\* Series == value
SeriesEq(cells, v) == [i \in 1..Len(cells) |-> cells[i] = v]

\* boolean Series.sum()
Count(bools) == Cardinality({i \in 1..Len(bools) : bools[i]})

RECURSIVE Sum(_)
Sum(xs) == IF xs = << >> THEN 0 ELSE Head(xs) + Sum(Tail(xs))

\* Series.mean() * 100 of a boolean column
PctMean(bools) == Fraction(100 * Count(bools), Len(bools))

\* Series.mean() of a nullable number column: the nulls are skipped
MeanSkipNa(cells) ==
    LET valid == SelectSeq2(cells, {i \in 1..Len(cells) : notna(cells[i])})
    IN Fraction(Sum([i \in 1..Len(valid) |-> Val(valid[i])]), Len(valid))

\* df["sej_spe_final"].dropna().unique(): in order of first appearance
Specialites(rows) ==
    LET firsts == {i \in 1..Len(rows) :
                      /\ notna(rows[i].sej_spe_final)
                      /\ \A j \in 1..(i - 1) : rows[j].sej_spe_final # rows[i].sej_spe_final}
        kept == SelectSeq2(rows, firsts)
    IN [k \in 1..Len(kept) |-> Val(kept[k].sej_spe_final)]

\* sorted(stats_par_spe, key=total_sejours, reverse=True): stable
TotalBefore(a, b) == a.total_sejours > b.total_sejours

ValidationGroup(rows) ==
    [nb_sejours_valides |-> Count(SeriesNotna(Series(rows, "doc_val"))),
     pct_sejours_validees |-> PctMean(SeriesNotna(Series(rows, "doc_val"))),
     taux_validation_j0_over_sejours |-> PctMean(SeriesEq(Series(rows, "sej_classe"), "0j")),
     delai_moyen_validation |-> NanToZero(MeanSkipNa(Series(rows, "del_sorval")))]

\* lines 516-584 on the rows of the classified table
ValidationStats(rows) ==
    LET spes == Specialites(rows)
        par_spe == [k \in 1..Len(spes) |->
            LET df_spe == SelectSeq(rows, LAMBDA r : r.sej_spe_final = Some(spes[k]))
            IN [specialite |-> spes[k], total_sejours |-> Len(df_spe)]
               @@ ValidationGroup(df_spe)]
    IN [total_sejours_all |-> Len(rows),
        par_specialite_all |-> StableSort(par_spe,
            {p \in Pairs(par_spe) : TotalBefore(par_spe[p[1]], par_spe[p[2]])})]
       @@ ValidationGroup(rows)

\* the objects of a call calculate_validation_stats(df): line 514 binds df to
\* the table classify_sejours_iql returns
ValidationCall(df, ok) == ClassifyCall(df, ok)

\* the dictionary returned at the end of the call
ValidationReturn(call) == ValidationStats(call.heap[call.ret].rows)

calculate_validation_stats(df, ok) == ValidationReturn(ValidationCall(df, ok))

\* (date_diffusion - doc_val).dt.days
DiffusionDelay(r) ==
    IF notna(r.date_diffusion) /\ notna(r.doc_val)
    THEN Some(TimedeltaDays(Val(r.date_diffusion) - Val(r.doc_val)))
    ELSE Null

DiffusionGroup(rows) ==
    LET nb_diffuses == Count(SeriesNotna(Series(rows, "date_diffusion")))
        nb_validees == Count(SeriesNotna(Series(rows, "doc_val")))
        delays == [i \in 1..Len(rows) |-> DiffusionDelay(rows[i])]
    IN [nb_ll_diffusees |-> nb_diffuses,
        pct_ll_diffusees_over_validees |->
            IF nb_validees > 0 THEN Fraction(100 * nb_diffuses, nb_validees) ELSE Zero,
        pct_ll_diffusees_over_sejours |-> Fraction(100 * nb_diffuses, Len(rows)),
        taux_diffusion_J0_validation |->
            PctMean(SeriesEq(delays, Some(0))),
        delai_diffusion_validation |-> NanToZero(MeanSkipNa(delays))]

\* lines 611-717 on the rows of the classified table
DiffusionStats(rows) ==
    LET spes == Specialites(rows)
        par_spe == [k \in 1..Len(spes) |->
            LET df_spe == SelectSeq(rows, LAMBDA r : r.sej_spe_final = Some(spes[k]))
            IN [specialite |-> spes[k], total_sejours |-> Len(df_spe)]
               @@ DiffusionGroup(df_spe)]
    IN [par_specialite |-> StableSort(par_spe,
            {p \in Pairs(par_spe) : TotalBefore(par_spe[p[1]], par_spe[p[2]])})]
       @@ DiffusionGroup(rows)

\* pd.to_datetime of a date cell: the timestamp of the same instant, NaT for null
to_datetime(x) == IF isna(x) THEN Null ELSE Some(Val(x))

\* lines 625-626: the two date columns converted
WithDates(df) ==
    [cols |-> df.cols,
     rows |-> [i \in 1..Len(df.rows) |->
                [df.rows[i] EXCEPT !.date_diffusion = to_datetime(@),
                                   !.doc_val = to_datetime(@)]]]

\* the objects of a call calculate_diffusion_stats(df): line 609 binds df to
\* the table classify_sejours_iql returns, line 624 copies it and lines
\* 625-626 write the dates in the copy
DiffusionCall(df, ok) ==
    LET classified_call == ClassifyCall(df, ok)
        df_with_dates == copy(classified_call.heap, classified_call.ret)
    IN [heap |-> setitem(df_with_dates.heap, df_with_dates.ref,
                         WithDates(df_with_dates.heap[df_with_dates.ref])),
        ret |-> classified_call.ret]

\* the dictionary returned at the end of the call
DiffusionReturn(call) == DiffusionStats(call.heap[call.ret].rows)

calculate_diffusion_stats(df, ok) == DiffusionReturn(DiffusionCall(df, ok))

----------------------------------------------------------------------------
(* Inputs *)

Ipp == "100000001"
Admission == Days(6)

SejourRows(ipps, sorties, ufs) ==
    {[sej_id |-> 0, pat_ipp |-> p, sej_ent |-> Admission, sej_sor |-> o,
      sej_uf |-> u] :
        p \in ipps, o \in sorties, u \in ufs}

\* a timing is <<doc_cre, doc_val, date_diffusion>>, a mere is
\* <<doc_creamere, doc_modmere>>
DocumentRows(ipps, keys, venues, meres, timings, spes) ==
    {[doc_id |-> 0, pat_ipp |-> p, doc_key |-> k, doc_venue |-> v, doc_creamere |-> m[1],
      doc_modmere |-> m[2], doc_cre |-> t[1], doc_val |-> t[2],
      date_diffusion |-> t[3], doc_spe |-> s] :
        p \in ipps, k \in keys, v \in venues, m \in meres, t \in timings, s \in spes}

\* the tables of min to max rows; the identifier of a row (0 in the sets of
\* rows above) is its position
SejourTables(rows, min, max) ==
    UNION {{[i \in 1..n |-> [t[i] EXCEPT !.sej_id = i]] : t \in [1..n -> rows]} :
            n \in min..max}

DocumentTables(rows, max) ==
    UNION {{[i \in 1..n |-> [t[i] EXCEPT !.doc_id = i]] : t \in [1..n -> rows]} : n \in 0..max}

\* the columns of the table get_documents_data returns
DocumentTableColumns ==
    RequiredColumns \cup OptionalColumns \cup {"doc_spe", "date_diffusion"}

Rea == <<"r", "e'", "a">>
Orl == <<"o", "r", "l">>

NoMere == <<Null, Null>>
\* created during the stay, validated on the day of the first discharge
OnTime == <<Some(Days(7)), Some(Days(8)), Null>>
\* validated a day later
Late == <<Some(Days(7)), Some(Days(9)), Null>>

\* one patient, one kind of stay; documents that differ in one sort key each:
\* the label, the venue number, a parent too old for the stay, a creation
\* before the stay, no validation
RankingInputs ==
    [cols |-> DocumentTableColumns,
     sej |-> SejourTables(SejourRows({Some(Ipp)}, {Days(8)}, {"101"}), 1, MaxSejours),
     docs |-> DocumentTables(
        UNION {DocumentRows({Some(Ipp)}, {Rea, Orl}, {Null, Some(1)}, {m}, {t}, {Null}) :
            <<m, t>> \in
                {<<NoMere, OnTime>>, <<NoMere, Late>>,
                 <<<<Some(Days(0)), Null>>, OnTime>>,
                 <<NoMere, <<Some(Days(2)), Some(Days(8)), Null>>>>,
                 <<NoMere, <<Some(Days(7)), Null, Null>>>>}},
        MaxDocuments)]

\* one patient, stays discharged at different times; documents inside and
\* outside the windows of the criteria
TimingInputs ==
    [cols |-> DocumentTableColumns,
     sej |-> SejourTables(
        SejourRows({Some(Ipp)}, {Days(8), Days(8) + 1, Days(10)}, {"101"}), 1, MaxSejours),
     docs |-> DocumentTables(
        UNION {DocumentRows({Some(Ipp)}, {Rea}, {Null}, {m}, {t}, {Null}) :
            <<m, t>> \in
                {<<NoMere, OnTime>>, <<NoMere, Late>>,
                 <<NoMere, <<Some(Days(0)), Some(Days(8)), Null>>>>,
                 <<NoMere, <<Some(Days(2)), Some(Days(6)), Null>>>>,
                 <<NoMere, <<Some(Days(2)), Some(Days(5)), Null>>>>,
                 <<<<Some(Days(12)), Null>>, OnTime>>,
                 <<<<Some(Days(12)), Some(Days(7))>>, OnTime>>}},
        MaxDocuments)]

\* stays and documents with and without a patient id, two units; documents
\* with and without a document specialty, a validation and a dispatch date
IdentityInputs ==
    [cols |-> DocumentTableColumns,
     sej |-> SejourTables(
        SejourRows({Some(Ipp), Null}, {Days(8)}, {"101"})
            \cup SejourRows({Some(Ipp)}, {Days(8)}, {"202"}), 0, MaxSejours),
     docs |-> DocumentTables(
        UNION {DocumentRows({Some(Ipp), Null}, {k}, {Null}, {NoMere}, {t}, {s}) :
            <<k, t, s>> \in
                {<<Rea, OnTime, Null>>,
                 <<Rea, <<Some(Days(7)), Some(Days(8)), Some(Days(8))>>, Some("CHIRURGIE")>>,
                 <<Orl, <<Some(Days(7)), Some(Days(9)), Some(Days(10))>>, Some("ORL")>>,
                 <<Rea, <<Some(Days(7)), Null, Some(Days(9))>>, Some("CHIRURGIE")>>}},
        MaxDocuments)]

\* document tables without the optional columns not in opt: no venue number,
\* no parent timestamps; the rows hold null there. The parent is created
\* after the discharge and modified before it.
ColumnsInputs(opt) ==
    [cols |-> DocumentTableColumns \ (OptionalColumns \ opt),
     sej |-> SejourTables(SejourRows({Some(Ipp)}, {Days(8)}, {"101"}), 1, MaxSejours),
     docs |-> DocumentTables(
        DocumentRows({Some(Ipp)}, {Rea},
            IF "doc_venue" \in opt THEN {Null, Some(1)} ELSE {Null},
            (IF "doc_creamere" \in opt THEN {Null, Some(Days(12))} ELSE {Null})
                \X (IF "doc_modmere" \in opt THEN {Null, Some(Days(7))} ELSE {Null}),
            {OnTime}, {Null}),
        MaxDocuments)]

Inputs ==
    {RankingInputs, TimingInputs, IdentityInputs}
        \cup {ColumnsInputs(opt) : opt \in (SUBSET OptionalColumns) \ {OptionalColumns}}

----------------------------------------------------------------------------
(* generate_report_data *)

\* the report pipeline is modelled from the tables the two query functions
\* returned: no query function is running
NoDatabaseCall ==
    /\ request = [caller |-> "none", start_date |-> Null, end_date |-> Null,
                  sejour_list |-> Null]
    /\ filters = << >>
    /\ queries = << >>
    /\ conn_gam = Null
    /\ conn_esl = Null
    /\ connections = << >>
    /\ opened = [gam |-> 0, esl |-> 0]

\* lines 276-279 and 419-424: a failure of load_matrice_specialite is caught
MergeCatchesLoadFailure == TRUE
ClassifyCatchesLoadFailure == TRUE

Init ==
    /\ \E in \in Inputs :
          sejours \in in.sej /\ documents \in in.docs /\ doc_columns = in.cols
    /\ matrice_ok \in BOOLEAN
    /\ pc = "start"
    /\ data = << >>
    /\ data_best = << >>
    /\ data_final = << >>
    /\ classified = [cols |-> {}, rows |-> << >>]
    /\ stats_validation = Null
    /\ stats_diffusion = Null
    /\ libelle = Null
    /\ key = Null
    /\ NoDatabaseCall

MergeSejoursDocuments ==
    /\ pc = "start"
    /\ \E call \in {MergeArguments(sejours, documents)} :
          /\ IF KeyError(doc_columns) \/ (~matrice_ok /\ ~MergeCatchesLoadFailure)
             THEN /\ pc' = "raised"
                  /\ UNCHANGED <<data, data_best, data_final>>
             ELSE \E candidates \in {Candidates(call.heap[call.sejours],
                                                call.heap[call.documents],
                                                doc_columns, matrice_ok)} :
                  \E best \in {GroupByFirst(data_sorted(candidates))} :
                     /\ pc' = "merged"
                     /\ data' = candidates
                     /\ data_best' = best
                     /\ data_final' = ConcatSansDoc(call.heap[call.sejours],
                                                   ResolveMultiSejours(best))
          \* the tables the caller holds after the call
          /\ sejours' = call.heap[1]
          /\ documents' = call.heap[2]
    /\ UNCHANGED <<doc_columns, matrice_ok, classified, stats_validation, stats_diffusion,
                   libelle, key, database_vars>>

\* variant: the classifier is handed the selection as it was before the
\* documents selected by several stays were dealt with
ClassifierInput_Unresolved(best, final) == best

\* generate_files.py lines 100-104: the table classify_sejours_iql is handed is
\* the one merge_sejours_documents returned
ClassifierInput(best, final) == final

ClassifySejoursIql ==
    /\ pc = "merged"
    /\ LET df == MergedTable(ClassifierInput(data_best, data_final), matrice_ok)
       IN IF ~AlreadyJoined(df) /\ ~matrice_ok /\ ~ClassifyCatchesLoadFailure
          THEN pc' = "raised" /\ UNCHANGED <<classified, data_final>>
          ELSE \E call \in {ClassifyCall(df, matrice_ok)} :
                  /\ pc' = "classified"
                  /\ classified' = call.heap[call.ret]
                  \* the table the caller holds after the call
                  /\ data_final' = call.heap[1].rows
    /\ UNCHANGED <<sejours, documents, doc_columns, matrice_ok, data, data_best,
                   stats_validation, stats_diffusion, libelle, key,
                   database_vars>>

CalculateValidationStats ==
    /\ pc = "classified"
    /\ pc' = "validation"
    /\ \E call \in {ValidationCall(classified, matrice_ok)} :
          /\ stats_validation' = Some(ValidationReturn(call))
          \* the table the caller holds after the call
          /\ classified' = call.heap[1]
    /\ UNCHANGED <<sejours, documents, doc_columns, matrice_ok, data, data_best,
                   data_final, stats_diffusion, libelle, key, database_vars>>

CalculateDiffusionStats ==
    /\ pc = "validation"
    /\ pc' = "done"
    /\ \E call \in {DiffusionCall(classified, matrice_ok)} :
          /\ stats_diffusion' = Some(DiffusionReturn(call))
          \* the table the caller holds after the call
          /\ classified' = call.heap[1]
    /\ UNCHANGED <<sejours, documents, doc_columns, matrice_ok, data, data_best,
                   data_final, stats_validation, libelle, key, database_vars>>

Next ==
    \/ MergeSejoursDocuments
    \/ ClassifySejoursIql
    \/ CalculateValidationStats
    \/ CalculateDiffusionStats

Spec == Init /\ [][Next]_vars

----------------------------------------------------------------------------
(* The key normalizer on its own *)

\* the characters the labels are made of
LibelleChars == {"c", "R", "l", " ", "E'"}

RECURSIVE Strings(_, _)
\* the strings of at most n characters of the set chars
Strings(chars, n) ==
    IF n = 0 THEN {<< >>}
    ELSE LET shorter == Strings(chars, n - 1)
         IN shorter \cup {Append(t, c) : t \in shorter, c \in chars}

\* labels: absent, short strings, and labels of EASILY forms
Libelles ==
    {Null}
        \cup {Some(t) : t \in Strings(LibelleChars, MaxLibelle)}
        \cup {Some(Chars("CR Lettre de Liaison ") \o <<"R", "E'", "A">>),
              Some(Chars("Lettre de liaison HDJ Foch cardio.")),
              Some(Chars(" LL CS orl "))}

InitKey ==
    /\ libelle \in Libelles
    /\ key = Null
    /\ pc = "label"
    /\ sejours = << >>
    /\ documents = << >>
    /\ doc_columns = DocumentTableColumns
    /\ matrice_ok = TRUE
    /\ data = << >>
    /\ data_best = << >>
    /\ data_final = << >>
    /\ classified = [cols |-> {}, rows |-> << >>]
    /\ stats_validation = Null
    /\ stats_diffusion = Null
    /\ NoDatabaseCall

NormalizeKey ==
    /\ pc = "label"
    /\ pc' = "key"
    /\ key' = doc_key_norm(libelle)
    /\ UNCHANGED <<sejours, documents, doc_columns, matrice_ok, data, data_best,
                   data_final, classified, stats_validation, stats_diffusion, libelle,
                   database_vars>>

NextKey == NormalizeKey

SpecKey == InitKey /\ [][NextKey]_vars

----------------------------------------------------------------------------
(* database.py: DatabaseConnector, get_sejours_data, get_documents_data *)

\* the truth value Python gives an optional string or list: None and the empty
\* one are false
Truthy(x) == notna(x) /\ Val(x) # << >>

\* the properties connect_gam and connect_esl (lazy loading): is a connection
\* opened by an access that finds the reference conn, when connecting succeeds (ok)
connect(conn, ok) == isna(conn) /\ ok

\* does the access raise: the exception of the driver is raised again
connect_raises(conn, ok) == isna(conn) /\ ~ok

\* the connections after one more is opened to the database db
Opened(db) == Append(connections, [db |-> db, closed |-> FALSE])

connect_gam(ok) ==
    IF connect(conn_gam, ok)
    THEN /\ conn_gam' = Some(Len(connections) + 1)
         /\ connections' = Opened("gam")
         /\ opened' = [opened EXCEPT !.gam = @ + 1]
    ELSE UNCHANGED <<conn_gam, connections, opened>>

connect_esl(ok) ==
    IF connect(conn_esl, ok)
    THEN /\ conn_esl' = Some(Len(connections) + 1)
         /\ connections' = Opened("esl")
         /\ opened' = [opened EXCEPT !.esl = @ + 1]
    ELSE UNCHANGED <<conn_esl, connections, opened>>

\* does close() raise on the connection the reference conn holds (ok: the
\* driver closes it); a reference that is None is skipped (lines 58, 61)
close_raises(conn, ok) == notna(conn) /\ ~ok

\* does disconnect_all raise: the exception of the first close() that raises
\* leaves the method; the ESL connection is reached when the GAM one, if
\* any, was closed
disconnect_all_raises(gam_ok, esl_ok) ==
    close_raises(conn_gam, gam_ok) \/ close_raises(conn_esl, esl_ok)

\* the connections disconnect_all closes: the ones the connector refers to,
\* up to the first close() that raises
Closing(gam, esl, gam_ok, esl_ok) ==
    IF close_raises(gam, gam_ok) THEN {}
    ELSE IF close_raises(esl, esl_ok) THEN gam
    ELSE gam \cup esl

\* lines 56-63: each connection is closed, then its reference set to None;
\* a close() that raises leaves its connection open and its reference, and
\* the references after it, as they were
disconnect_all(gam_ok, esl_ok) ==
    /\ connections' = [i \in 1..Len(connections) |->
                          IF i \in Closing(conn_gam, conn_esl, gam_ok, esl_ok)
                          THEN [connections[i] EXCEPT !.closed = TRUE]
                          ELSE connections[i]]
    /\ conn_gam' = (conn_gam \ Closing(conn_gam, conn_esl, gam_ok, esl_ok))
    /\ conn_esl' = (conn_esl \ Closing(conn_gam, conn_esl, gam_ok, esl_ok))
    /\ opened' = IF disconnect_all_raises(gam_ok, esl_ok) THEN opened
                 ELSE [gam |-> 0, esl |-> 0]

\* a filter of the query; the fields a kind does not use are null or empty
Filter(kind, start, end, ids) ==
    [kind |-> kind, start_date |-> start, end_date |-> end, ids |-> ids]

\* [str(s).strip() for s in sejour_list if str(s).strip()]
sejour_list_clean(list) ==
    LET stripped == [i \in 1..Len(list) |-> Strip(list[i])]
    IN SelectSeq2(stripped, {i \in 1..Len(stripped) : stripped[i] # << >>})

\* lines 113-121: the filter on the discharge date
PeriodFilters(req) ==
    IF Truthy(req.start_date) /\ Truthy(req.end_date)
    THEN << Filter("dates", req.start_date, req.end_date, << >>) >>
    ELSE IF ~Truthy(req.sejour_list)
         THEN << Filter("default", Null, Null, << >>) >>
         ELSE << >>

\* lines 124-130: the filter on the stay numbers
SejourFilters(req) ==
    IF Truthy(req.sejour_list) /\ sejour_list_clean(Val(req.sejour_list)) # << >>
    THEN << Filter("sejours", Null, Null, sejour_list_clean(Val(req.sejour_list))) >>
    ELSE << >>

\* lines 219-222: the condition get_documents_data adds to its query
DocumentFilters(req) ==
    IF Truthy(req.start_date) /\ Truthy(req.end_date)
    THEN << Filter("dates", req.start_date, req.end_date, << >>) >>
    ELSE << >>

\* a date and a stay number are strings, sequences of characters
StartDate == Chars("2025-01-01")
EndDate == Chars("2025-01-31")
SejourIds == {<< >>, <<" ">>, <<"7">>, <<" ", "8">>}

RECURSIVE Lists(_, _)
\* the lists of at most n elements of the set elems
Lists(elems, n) ==
    IF n = 0 THEN {<< >>}
    ELSE LET shorter == Lists(elems, n - 1)
         IN shorter \cup {Append(t, e) : t \in shorter, e \in elems}

SejourLists == {Null} \cup {Some(l) : l \in Lists(SejourIds, MaxSejourIds)}

Request(caller, starts, ends, lists) ==
    {[caller |-> caller, start_date |-> s, end_date |-> e, sejour_list |-> l] :
        s \in starts, e \in ends, l \in lists}

\* the callers of generate_report_data: /api/report/by-date (two valid dates,
\* an optional list), /api/report/by-sejours (a list that is not empty, no
\* date), the monthly report (two dates), and a call with any arguments
Requests ==
    Request("by-date", {Some(StartDate)}, {Some(EndDate)}, SejourLists)
        \cup Request("by-sejours", {Null}, {Null},
                     {l \in SejourLists : Truthy(l)})
        \cup Request("monthly", {Some(StartDate)}, {Some(EndDate)}, {Null})
        \cup Request("direct", {Null, Some(StartDate)}, {Null, Some(EndDate)}, SejourLists)

InitDatabase ==
    /\ \/ request \in Requests /\ pc = "get_sejours_data"
       \/ /\ request = [caller |-> "connector", start_date |-> Null, end_date |-> Null,
                        sejour_list |-> Null]
          /\ pc = "connector"
    /\ filters = << >>
    /\ queries = << >>
    /\ conn_gam = Null
    /\ conn_esl = Null
    /\ connections = << >>
    /\ opened = [gam |-> 0, esl |-> 0]
    /\ sejours = << >>
    /\ documents = << >>
    /\ doc_columns = DocumentTableColumns
    /\ matrice_ok = TRUE
    /\ data = << >>
    /\ data_best = << >>
    /\ data_final = << >>
    /\ classified = [cols |-> {}, rows |-> << >>]
    /\ stats_validation = Null
    /\ stats_diffusion = Null
    /\ libelle = Null
    /\ key = Null

\* can the driver open one more connection (the bound of the model)
CanOpen == Len(connections) < MaxConnections

\* db.connect_gam, in get_sejours_data (line 84) or on a connector used directly
ConnectGam ==
    /\ pc \in {"get_sejours_data", "connector"}
    /\ \E ok \in (IF CanOpen THEN BOOLEAN ELSE {FALSE}) :
          /\ connect_gam(ok)
          /\ pc' = IF pc = "connector" THEN pc
                   ELSE IF connect_raises(conn_gam, ok) THEN "sejours_finally_raise"
                   ELSE "sejours_connected"
    /\ UNCHANGED <<pipeline_vars, key_vars, request, filters, queries, conn_esl>>

\* lines 85-136: the cursor, the filters, the execution of the query
ExecuteSejoursQuery ==
    /\ pc = "sejours_connected"
    /\ \E outcome \in {"cursor raises", "execute raises", "executed"} :
       \E built \in {PeriodFilters(request) \o SejourFilters(request)} :
          /\ filters' = IF outcome = "cursor raises" THEN filters ELSE built
          /\ queries' = IF outcome = "executed"
                        THEN Append(queries, [db |-> "gam", filters |-> built])
                        ELSE queries
          /\ pc' = IF outcome = "executed" THEN "sejours_executed"
                   ELSE "sejours_finally_raise"
    /\ UNCHANGED <<pipeline_vars, key_vars, request, conn_gam, conn_esl, connections, opened>>

\* lines 139-162: the rows, clean_ipp, the unit code; any of them can raise
FetchSejours ==
    /\ pc = "sejours_executed"
    /\ \E ok \in BOOLEAN :
          pc' = IF ok THEN "sejours_finally_return" ELSE "sejours_finally_raise"
    /\ UNCHANGED <<pipeline_vars, key_vars, database_vars>>

\* db.connect_esl, in get_documents_data (line 183) or on a connector used directly
ConnectEsl ==
    /\ pc \in {"get_documents_data", "connector"}
    /\ \E ok \in (IF CanOpen THEN BOOLEAN ELSE {FALSE}) :
          /\ connect_esl(ok)
          /\ pc' = IF pc = "connector" THEN pc
                   ELSE IF connect_raises(conn_esl, ok) THEN "documents_finally_raise"
                   ELSE "documents_connected"
    /\ UNCHANGED <<pipeline_vars, key_vars, request, filters, queries, conn_gam>>

\* lines 186-224: the query and pd.read_sql
ReadDocuments ==
    /\ pc = "documents_connected"
    /\ \E ok \in BOOLEAN :
          /\ queries' = IF ok
                        THEN Append(queries, [db |-> "esl", filters |-> DocumentFilters(request)])
                        ELSE queries
          /\ pc' = IF ok THEN "documents_read" ELSE "documents_finally_raise"
    /\ UNCHANGED <<pipeline_vars, key_vars, request, filters, conn_gam, conn_esl,
                   connections, opened>>

\* lines 227-256: the dates, clean_ipp, create_doc_key; any of them can raise
ConvertDocuments ==
    /\ pc = "documents_read"
    /\ \E ok \in BOOLEAN :
          pc' = IF ok THEN "documents_finally_return" ELSE "documents_finally_raise"
    /\ UNCHANGED <<pipeline_vars, key_vars, database_vars>>

\* db.disconnect_all(): the finally block of the two functions (lines 170-171,
\* 264-265), or a call on a connector used directly. An exception raised by
\* close() leaves the function from its finally block, whether the try block
\* had returned or raised. generate_report_data calls get_documents_data when
\* get_sejours_data has returned.
DisconnectAll ==
    /\ pc \in {"sejours_finally_return", "sejours_finally_raise",
               "documents_finally_return", "documents_finally_raise", "connector"}
    /\ \E gam_ok \in (IF isna(conn_gam) THEN {TRUE} ELSE BOOLEAN) :
       \E esl_ok \in (IF isna(conn_esl) \/ close_raises(conn_gam, gam_ok)
                      THEN {TRUE} ELSE BOOLEAN) :
          /\ disconnect_all(gam_ok, esl_ok)
          /\ pc' = CASE pc = "connector" -> "connector"
                      [] disconnect_all_raises(gam_ok, esl_ok) -> "raised_in_finally"
                      [] pc = "sejours_finally_return" -> "get_documents_data"
                      [] pc = "documents_finally_return" -> "returned"
                      [] OTHER -> "raised"
    /\ UNCHANGED <<pipeline_vars, key_vars, request, filters, queries>>

NextDatabase ==
    \/ ConnectGam
    \/ ExecuteSejoursQuery
    \/ FetchSejours
    \/ ConnectEsl
    \/ ReadDocuments
    \/ ConvertDocuments
    \/ DisconnectAll

SpecDatabase == InitDatabase /\ [][NextDatabase]_vars

----------------------------------------------------------------------------
(* Properties *)

Merged == pc \in {"merged", "classified", "validation", "done"}
Classified == pc \in {"classified", "validation", "done"}
Aggregated == pc \in {"validation", "done"}

Rows(t) == 1..Len(t)
RowsOfSejour(t, id) == {k \in Rows(t) : t[k].sej_id = id}
Claimants(d) == {i \in Rows(data_best) : data_best[i].doc_id = Some(d)}
ContestedDocs == {d \in UNION {data_best[i].doc_id : i \in Rows(data_best)} :
                    Cardinality(Claimants(d)) > 1}
Keepers(d) == {k \in Rows(data_final) :
                  data_final[k].doc_id = Some(d) /\ notna(data_final[k].del_sorval)}
Max0(n) == IF n > 0 THEN n ELSE 0

\* C1: the table returned by merge_sejours_documents has exactly one row per
\* input stay: as many rows as stays, and every stay in exactly one row.
C1_Cardinality ==
    Merged =>
        /\ Len(data_final) = Len(sejours)
        /\ \A i \in Rows(sejours) :
              Cardinality(RowsOfSejour(data_final, sejours[i].sej_id)) = 1

\* a stay with two candidate documents next to a stay with none
C1_Witness ==
    /\ Merged
    /\ \E i \in Rows(sejours) :
          Cardinality(RowsOfSejour(data, sejours[i].sej_id)) = 2
    /\ \E k \in Rows(data_final) : isna(data_final[k].doc_id)

\* C2: after the multi-stay step at most one stay holds a given document
\* together with a non-null raw delay.
C2_DocumentExclusivity ==
    Merged =>
        \A d \in UNION {data_final[k].doc_id : k \in Rows(data_final)} :
            Cardinality(Keepers(d)) <= 1

\* two stays selected the same document, both with a raw delay, one keeps it
C2_Witness ==
    /\ Merged
    /\ \E d \in ContestedDocs :
          /\ \A i \in Claimants(d) : notna(data_best[i].del_sorval)
          /\ Cardinality(Keepers(d)) = 1

\* C3: sej_classe is one of "0j", "1j+", "sansLL"; "0j" exactly when del_val
\* is 0, "1j+" exactly when del_val is positive, "sansLL" exactly when del_val
\* is null.
C3_ClassificationPartition ==
    Classified =>
        \A k \in Rows(classified.rows) :
            LET r == classified.rows[k]
            IN /\ r.sej_classe \in {"0j", "1j+", "sansLL"}
               /\ (r.sej_classe = "0j") <=> (r.del_val = Some(0))
               /\ (r.sej_classe = "1j+") <=> (notna(r.del_val) /\ Val(r.del_val) > 0)
               /\ (r.sej_classe = "sansLL") <=> isna(r.del_val)

\* a table with an on-time stay and a late stay
C3_Witness ==
    /\ Classified
    /\ \E k \in Rows(classified.rows) : classified.rows[k].sej_classe = "0j"
    /\ \E k \in Rows(classified.rows) : classified.rows[k].sej_classe = "1j+"

\* C4: in the table classify_sejours_iql returns, del_val is max(0, del_sorval)
\* for a stay whose del_sorval and sej_spe_final are non-null, and null
\* otherwise.
C4_FinalDelay ==
    Classified =>
        \A k \in Rows(classified.rows) :
            LET r == classified.rows[k]
            IN r.del_val =
                   IF notna(r.del_sorval) /\ notna(r.sej_spe_final)
                   THEN Some(Max0(Val(r.del_sorval))) ELSE Null

\* what the code does: the statement holds of the runs in which the mapping
\* loads; when it cannot be loaded the except branch (lines 419-424) gives
\* the stays the specialty doc_spe and returns before any del_val is
\* computed; del_val is never negative
C4_ClampedDelay ==
    Classified =>
        \A k \in Rows(classified.rows) :
            LET r == classified.rows[k]
            IN /\ matrice_ok =>
                     r.del_val =
                         IF notna(r.del_sorval) /\ notna(r.sej_spe_final)
                         THEN Some(Max0(Val(r.del_sorval))) ELSE Null
               /\ ~matrice_ok => isna(r.del_val)
               /\ notna(r.del_val) => Val(r.del_val) >= 0

\* a negative raw delay clamped to 0
C4_Clamped ==
    /\ Classified
    /\ \E k \in Rows(classified.rows) :
          LET r == classified.rows[k]
          IN /\ notna(r.del_sorval) /\ Val(r.del_sorval) < 0
             /\ notna(r.sej_spe_final)
             /\ r.del_val = Some(0)

\* C5: of the stays that selected the same document, the one that keeps it has
\* the smallest raw delay of the group (nulls last), and one stay keeps it as
\* soon as one has a raw delay.
C5_ClosestKeeps ==
    Merged =>
        \A d \in ContestedDocs :
            /\ \A k \in Keepers(d) : \A i \in Claimants(d) :
                  \/ isna(data_best[i].del_sorval)
                  \/ Val(data_final[k].del_sorval) <= Val(data_best[i].del_sorval)
            /\ (\E i \in Claimants(d) : notna(data_best[i].del_sorval))
                  => Keepers(d) # {}

\* raw delays 0 and 1 on the same document: on-time for the first stay,
\* unmatched for the second
C5_Witness ==
    /\ Classified
    /\ \E d \in ContestedDocs : \E i, j \in Claimants(d) :
          /\ data_best[i].del_sorval = Some(0)
          /\ data_best[j].del_sorval = Some(1)
          /\ \E k \in RowsOfSejour(classified.rows, data_best[i].sej_id) :
                classified.rows[k].sej_classe = "0j"
          /\ \E k \in RowsOfSejour(classified.rows, data_best[j].sej_id) :
                classified.rows[k].sej_classe = "sansLL"

\* stay i selected a document that another stay, closer to it or as close and
\* earlier in the table, selected too
LosesDocument(i) ==
    /\ notna(data_best[i].doc_id)
    /\ \E j \in Rows(data_best) :
          /\ j # i
          /\ data_best[j].doc_id = data_best[i].doc_id
          /\ \/ DelayBefore(data_best[j].del_sorval, data_best[i].del_sorval)
             \/ /\ ~DelayBefore(data_best[i].del_sorval, data_best[j].del_sorval)
                /\ j < i

\* C6: a stay that loses a contested document keeps its row, with the same
\* document columns as before the multi-stay step, a null raw delay, and the
\* class "sansLL".
C6_LoserStays ==
    /\ Merged =>
          \A i \in Rows(data_best) : LosesDocument(i) =>
              /\ Cardinality(RowsOfSejour(data_final, data_best[i].sej_id)) = 1
              /\ \A k \in RowsOfSejour(data_final, data_best[i].sej_id) :
                    data_final[k] = [data_best[i] EXCEPT !.del_sorval = Null]
    /\ Classified =>
          \A i \in Rows(data_best) : LosesDocument(i) =>
              /\ Cardinality(RowsOfSejour(classified.rows, data_best[i].sej_id)) = 1
              /\ \A k \in RowsOfSejour(classified.rows, data_best[i].sej_id) :
                    /\ classified.rows[k].doc_id = data_best[i].doc_id
                    /\ classified.rows[k].doc_val = data_best[i].doc_val
                    /\ isna(classified.rows[k].del_sorval)
                    /\ classified.rows[k].sej_classe = "sansLL"

\* a stay with a specialty and a raw delay loses its document
C6_Witness ==
    /\ Classified
    /\ matrice_ok
    /\ \E i \in Rows(data_best) :
          /\ LosesDocument(i)
          /\ notna(data_best[i].del_sorval)
          /\ notna(data_best[i].sej_spe)

\* the sort key of a candidate in the declared order: specialty first, venue
\* match, parent-document freshness, composite eligibility, created during the
\* stay, then the raw delay with the nulls last
SortKey(r) ==
    << AsInt(isna(r.sej_spe)), AsInt(~r.sdt_docven), AsInt(~r.sdt_emere),
       AsInt(~r.sdt_status), AsInt(~r.sdt_doccref), AsInt(isna(r.del_sorval)),
       IF isna(r.del_sorval) THEN 0 ELSE Val(r.del_sorval) >>

LexLess(a, b) ==
    \E p \in 1..Len(a) : a[p] < b[p] /\ \A q \in 1..(p - 1) : a[q] = b[q]

CandidatesOf(id) == {k \in Rows(data) : data[k].sej_id = id /\ notna(data[k].doc_id)}

\* C7: the document selected for a stay with candidates is a candidate that no
\* other candidate of the stay precedes in the declared lexicographic order.
C7_RankOrder ==
    Merged =>
        \A i \in Rows(sejours) :
            LET id == sejours[i].sej_id
            IN CandidatesOf(id) # {} =>
                  /\ RowsOfSejour(data_best, id) # {}
                  /\ \A b \in RowsOfSejour(data_best, id) :
                        \E k \in CandidatesOf(id) :
                            /\ data[k].doc_id = data_best[b].doc_id
                            /\ \A k2 \in CandidatesOf(id) :
                                  ~LexLess(SortKey(data[k2]), SortKey(data[k]))

\* the selected candidate comes second in the document table and has a
\* larger raw delay than the other one: an earlier key decided
C7_Witness ==
    /\ Merged
    /\ \E b \in Rows(data_best) : \E k, k2 \in CandidatesOf(data_best[b].sej_id) :
          /\ data[k].doc_id = data_best[b].doc_id
          /\ k2 < k
          /\ notna(data[k].del_sorval) /\ notna(data[k2].del_sorval)
          /\ Val(data[k2].del_sorval) < Val(data[k].del_sorval)

\* C8: a candidate pair is eligible exactly when its validation window, its
\* parent-document timing and its creation lower bound all hold, and it has
\* a raw delay exactly when it is eligible.
C8_Eligibility ==
    Merged =>
        \A k \in Rows(data) :
            /\ data[k].sdt_status <=>
                  (data[k].sdt_docval /\ data[k].sdt_smere /\ data[k].sdt_doccre)
            /\ notna(data[k].del_sorval) <=> data[k].sdt_status

\* an eligible pair next to a pair that meets two of the three criteria
C8_Witness ==
    /\ Merged
    /\ \E k \in Rows(data) : data[k].sdt_status /\ notna(data[k].del_sorval)
    /\ \E k \in Rows(data) :
          /\ notna(data[k].doc_id)
          /\ AsInt(data[k].sdt_docval) + AsInt(data[k].sdt_smere)
                + AsInt(data[k].sdt_doccre) = 2
          /\ isna(data[k].del_sorval)

\* C9: when the mapping cannot be loaded the run goes on to its end without
\* raising and every stay is classified "sansLL".
C9_DegradedRun ==
    ~matrice_ok =>
        /\ pc # "raised"
        /\ Classified =>
              /\ Len(classified.rows) = Len(sejours)
              /\ \A k \in Rows(classified.rows) :
                    classified.rows[k].sej_classe = "sansLL"
        /\ Aggregated =>
              /\ Val(stats_validation).total_sejours_all = Len(sejours)
              /\ Val(stats_validation).taux_validation_j0_over_sejours
                    \in {NaN, <<0, Len(sejours)>>}
        /\ pc = "done" => notna(stats_diffusion)

\* a finished run without the mapping, with a stay whose document is
\* validated on the day of discharge
C9_Witness ==
    /\ pc = "done"
    /\ ~matrice_ok
    /\ \E k \in Rows(classified.rows) :
          /\ classified.rows[k].del_sorval = Some(0)
          /\ notna(classified.rows[k].doc_spe)

\* the specialties of the groups of the validation statistics
GroupSpecialites ==
    {Val(stats_validation).par_specialite_all[g].specialite :
        g \in Rows(Val(stats_validation).par_specialite_all)}

\* C10: when the mapping cannot be loaded, sej_spe after
\* merge_sejours_documents and sej_spe_final after classify_sejours_iql are
\* null for every stay, and the aggregator produces no per-specialty group.
C10_NoSpecialty ==
    ~matrice_ok =>
        /\ Merged => \A k \in Rows(data_final) : isna(data_final[k].sej_spe)
        /\ Classified =>
              \A k \in Rows(classified.rows) : isna(classified.rows[k].sej_spe_final)
        /\ Aggregated => Val(stats_validation).par_specialite_all = << >>

\* what the code does when the mapping cannot be loaded: sej_spe is null for
\* every stay after merge_sejours_documents; sej_spe_final is the doc_spe cell
\* of the stay's row (line 423), which GroupBy.first() took from the first
\* candidate of the stay that has one, not always the document of the row's
\* doc_id (C21); the aggregator produces one group for each doc_spe cell that
\* is not null, counting the rows that hold it.
C10_RowDocSpe ==
    ~matrice_ok =>
        /\ Merged => \A k \in Rows(data_final) : isna(data_final[k].sej_spe)
        /\ Classified =>
              \A k \in Rows(classified.rows) :
                  classified.rows[k].sej_spe_final = classified.rows[k].doc_spe
        /\ Aggregated =>
              /\ GroupSpecialites =
                    UNION {classified.rows[k].doc_spe : k \in Rows(classified.rows)}
              /\ \A g \in Rows(Val(stats_validation).par_specialite_all) :
                    LET group == Val(stats_validation).par_specialite_all[g]
                    IN group.total_sejours =
                          Cardinality({k \in Rows(classified.rows) :
                              classified.rows[k].doc_spe = Some(group.specialite)})

\* a finished run without the mapping in which a stay has a document with a
\* doc_spe and the aggregator reports a group
C10_GroupReported ==
    /\ pc = "done"
    /\ ~matrice_ok
    /\ \E k \in Rows(classified.rows) : notna(classified.rows[k].doc_spe)
    /\ \E k \in Rows(classified.rows) : isna(classified.rows[k].doc_spe)
    /\ Val(stats_validation).par_specialite_all # << >>

----------------------------------------------------------------------------
(* C11 *)

\* the stays whose patient id is the patient id of no document
Unpaired == {i \in Rows(sejours) :
                ~\E j \in Rows(documents) : documents[j].pat_ipp = sejours[i].pat_ipp}

\* C11: a stay whose patient id no document shares is in the output with a null
\* selected document id, validation date, raw delay and specialty, and is
\* classified sansLL
C11_UnpairedStay ==
    \A i \in Unpaired :
        /\ Merged =>
              /\ RowsOfSejour(data_final, sejours[i].sej_id) # {}
              /\ \A k \in RowsOfSejour(data_final, sejours[i].sej_id) :
                    /\ isna(data_final[k].doc_id)
                    /\ isna(data_final[k].doc_val)
                    /\ isna(data_final[k].del_sorval)
                    /\ isna(data_final[k].sej_spe)
        /\ Classified =>
              /\ RowsOfSejour(classified.rows, sejours[i].sej_id) # {}
              /\ \A k \in RowsOfSejour(classified.rows, sejours[i].sej_id) :
                    /\ isna(classified.rows[k].doc_id)
                    /\ isna(classified.rows[k].sej_spe_final)
                    /\ classified.rows[k].sej_classe = "sansLL"

\* a classified run with documents of another patient and an unpaired stay
C11_Witness ==
    /\ Classified
    /\ matrice_ok
    /\ documents # << >>
    /\ \E i \in Unpaired :
          /\ notna(sejours[i].pat_ipp)
          /\ \E k \in RowsOfSejour(classified.rows, sejours[i].sej_id) :
                classified.rows[k].sej_classe = "sansLL"
    /\ \E k \in Rows(classified.rows) : classified.rows[k].sej_classe # "sansLL"

----------------------------------------------------------------------------
(* C12 *)

\* the calendar date of a timestamp, as a day number
DateOf(t) == t \div TicksPerDay

\* C12: for an eligible pair the raw delay is the number of whole calendar days
\* from the discharge date of the stay to the validation date of the document:
\* 0 for a validation on the discharge date, 2 for a validation two days later
C12_CalendarDays ==
    Merged =>
        \A k \in Rows(data) :
            data[k].sdt_status =>
                data[k].del_sorval =
                    Some(DateOf(Val(data[k].doc_val)) - DateOf(data[k].sej_sor))

\* the same statement for the stays discharged at midnight
C12_MidnightDischarge ==
    Merged =>
        \A k \in Rows(data) :
            (data[k].sdt_status /\ data[k].sej_sor = Days(DateOf(data[k].sej_sor))) =>
                data[k].del_sorval =
                    Some(DateOf(Val(data[k].doc_val)) - DateOf(data[k].sej_sor))

----------------------------------------------------------------------------
(* C14 *)

\* the rows of t in the order f
Permute(t, f) == [i \in 1..Len(t) |-> t[f[i]]]

\* the classified table of a run on the tables sej and docs
Outcome(sej, docs, ok) ==
    classify_sejours_iql(
        MergedTable(merge_sejours_documents(sej, docs, doc_columns, ok), ok), ok).rows

\* what the rows of a table say of the stay id: selected document, raw delay, class
ResultOf(rows, id) ==
    {<<rows[k].doc_id, rows[k].del_sorval, rows[k].sej_classe>> :
        k \in RowsOfSejour(rows, id)}

SameResults(rows) ==
    \A i \in Rows(sejours) :
        ResultOf(rows, sejours[i].sej_id) = ResultOf(classified.rows, sejours[i].sej_id)

\* C14: the rows of the document table and of the stay table taken in any other
\* order give every stay the same selected document, delay and classification
C14_OrderIndependence ==
    pc = "classified" =>
        \A f \in Permutations(Rows(documents)) :
            \A g \in Permutations(Rows(sejours)) :
                SameResults(Outcome(Permute(sejours, g), Permute(documents, f), matrice_ok))

\* the same statement for the order of the stay table alone
C14_SejourOrder ==
    pc = "classified" =>
        \A g \in Permutations(Rows(sejours)) :
            SameResults(Outcome(Permute(sejours, g), documents, matrice_ok))

----------------------------------------------------------------------------
(* C15 *)

\* C15: missing optional document data never makes the merge raise. Without
\* the venue column, or without a venue number, sdt_docven is false; without
\* the parent columns, or without a parent creation timestamp, sdt_smere and
\* sdt_emere are true.
C15_OptionalData ==
    /\ OptionalColumns \ doc_columns # {} => pc # "raised"
    /\ Merged =>
          \A k \in Rows(data) :
              /\ ("doc_venue" \notin doc_columns \/ isna(data[k].doc_venue))
                    => ~data[k].sdt_docven
              /\ (~({"doc_creamere", "doc_modmere"} \subseteq doc_columns)
                        \/ isna(data[k].doc_creamere))
                    => (data[k].sdt_smere /\ data[k].sdt_emere)

\* a merge of a table that has the parent creation column only: a document
\* whose parent was created after the discharge
C15_Witness ==
    /\ Merged
    /\ "doc_venue" \notin doc_columns
    /\ "doc_modmere" \notin doc_columns
    /\ \E k \in Rows(data) :
          /\ notna(data[k].doc_id)
          /\ Ge(data[k].doc_creamere, Some(data[k].sej_sor + 1))
          /\ data[k].sdt_smere
          /\ ~data[k].sdt_docven

----------------------------------------------------------------------------
(* C16 *)

ValidationDefined(g) ==
    /\ g.pct_sejours_validees # NaN
    /\ g.taux_validation_j0_over_sejours # NaN
    /\ g.delai_moyen_validation # NaN

DiffusionDefined(g) ==
    /\ g.pct_ll_diffusees_over_validees # NaN
    /\ g.pct_ll_diffusees_over_sejours # NaN
    /\ g.taux_diffusion_J0_validation # NaN
    /\ g.delai_diffusion_validation # NaN

StatisticsDefined ==
    /\ Aggregated =>
          /\ ValidationDefined(Val(stats_validation))
          /\ \A k \in Rows(Val(stats_validation).par_specialite_all) :
                ValidationDefined(Val(stats_validation).par_specialite_all[k])
    /\ pc = "done" =>
          /\ DiffusionDefined(Val(stats_diffusion))
          /\ \A k \in Rows(Val(stats_diffusion).par_specialite) :
                DiffusionDefined(Val(stats_diffusion).par_specialite[k])

\* C16: for zero stays, and for a group without a validated document, every
\* percentage and mean that calculate_validation_stats and
\* calculate_diffusion_stats report is a number, never NaN
C16_DefinedStatistics == pc # "raised" /\ StatisticsDefined

\* the same statement for the runs with at least one stay
C16_SomeStay == sejours # << >> => (pc # "raised" /\ StatisticsDefined)

----------------------------------------------------------------------------
(* C17 *)

\* two floats are the same number
SameNumber(a, b) ==
    IF a = NaN \/ b = NaN THEN a = b ELSE a[1] * b[2] = b[1] * a[2]

\* the mean of the final delay over the matched rows, 0.0 when there is none
MeanFinalDelay(rows) ==
    LET matched == SelectSeq2(rows, {i \in Rows(rows) : rows[i].sej_classe \in {"0j", "1j+"}})
    IN NanToZero(MeanSkipNa(Series(matched, "del_val")))

\* C17: the mean delay of calculate_validation_stats, for the whole table and
\* for each specialty, is the mean of the final delay over the stays classified
\* 0j or 1j+
C17_MeanFinalDelay ==
    pc = "validation" =>
        /\ SameNumber(Val(stats_validation).delai_moyen_validation,
                      MeanFinalDelay(classified.rows))
        /\ \A k \in Rows(Val(stats_validation).par_specialite_all) :
              LET g == Val(stats_validation).par_specialite_all[k]
              IN SameNumber(g.delai_moyen_validation,
                    MeanFinalDelay(SelectSeq2(classified.rows,
                        {i \in Rows(classified.rows) :
                            classified.rows[i].sej_spe_final = Some(g.specialite)})))

\* the same statement for the classified tables in which every raw delay is
\* at least 0 and every row with a raw delay has a specialty
C17_NoEarlyValidation ==
    (matrice_ok /\ \A i \in Rows(classified.rows) :
        notna(classified.rows[i].del_sorval) =>
            /\ Val(classified.rows[i].del_sorval) >= 0
            /\ notna(classified.rows[i].sej_spe_final))
    => C17_MeanFinalDelay

\* the same statement for the runs with the mapping
C17_WithMapping == matrice_ok => C17_MeanFinalDelay

----------------------------------------------------------------------------
(* C18 *)

\* C18: merge_sejours_documents leaves the stay table and the document table
\* it is given as they were; classify_sejours_iql and the two statistics
\* functions leave the table passed to them as it was
C18_ArgumentsUnchanged ==
    [][/\ sejours' = sejours
       /\ documents' = documents
       /\ pc = "merged" => data_final' = data_final
       /\ pc \in {"classified", "validation"} => classified' = classified]_vars

\* all four functions have run on tables with a null patient id, which
\* astype(str) rewrites in the copies
C18_Witness ==
    /\ pc = "done"
    /\ \E i \in Rows(sejours) : isna(sejours[i].pat_ipp)
    /\ \E j \in Rows(documents) : isna(documents[j].pat_ipp)
    /\ \E k \in Rows(data_final) : data_final[k].pat_ipp = "None"

----------------------------------------------------------------------------
(* C19 *)

\* the specialty of the first row of the mapping file for a unit and a
\* normalized key, null when the file has none
FirstSeen(uf, key_norm) ==
    LET hits == {i \in Rows(MatriceFile) :
                    /\ MatriceFile[i].sej_uf = uf
                    /\ normalize_text(MatriceFile[i].doc_key) = key_norm}
    IN IF hits = {} THEN Null
       ELSE Some(MatriceFile[CHOOSE i \in hits : \A j \in hits : i <= j].sej_spe)

\* C19: the mapping rows with the same unit code and normalized label collapse
\* to the first of them, so the specialty join gives a candidate pair the
\* specialty of the first-seen mapping row and leaves the number of candidate
\* rows as it was (looked at when the merge returns: no later step writes the
\* candidate table)
C19_FirstMapping ==
    (pc = "merged" /\ matrice_ok) =>
        /\ Len(data) = Len(CandidateJoin(sejours, documents))
        /\ \A k \in Rows(data) :
              data[k].sej_spe = FirstSeen(data[k].sej_uf, normalize_text(data[k].doc_key))

\* a candidate pair whose unit and label have two rows in the mapping file,
\* REANIMATION first
C19_Witness ==
    /\ Merged
    /\ matrice_ok
    /\ \E k \in Rows(data) :
          /\ Cardinality({i \in Rows(MatriceFile) :
                    /\ MatriceFile[i].sej_uf = data[k].sej_uf
                    /\ normalize_text(MatriceFile[i].doc_key) = data[k].doc_key_norm}) > 1
          /\ data[k].sej_spe = Some("REANIMATION")

----------------------------------------------------------------------------
(* C20 *)

\* the characters a normalized key can hold
KeyChars == {Unaccent(Upper(Lower(c))) : c \in LibelleChars \cup Range(LowerCase)} \cup {"."}

\* C20: create_doc_key followed by normalize_text gives every label, the
\* empty and the absent one included, a string, and gives the empty and the
\* absent label the empty string
C20_KeyNormalizer ==
    pc = "key" =>
        /\ notna(key)
        /\ Val(key) \in Seq(KeyChars)
        /\ (isna(libelle) \/ libelle = Some(<< >>)) => key = Some(<< >>)

\* the key of the absent label has been made
C20_Witness == pc = "key" /\ isna(libelle) /\ key = Some(<< >>)

\* the key of a label from which a pattern was removed and an accent dropped
C20_PatternRemoved ==
    ~(/\ pc = "key"
      /\ libelle = Some(Chars("CR Lettre de Liaison ") \o <<"R", "E'", "A">>)
      /\ key # Some(<<"R", "E", "A">>))

----------------------------------------------------------------------------
(* C21 *)

\* the match fields of a row: selected document, validation date, raw delay,
\* specialty and the eligibility booleans
MatchFields(r) ==
    << r.doc_id, r.doc_val, r.del_sorval, r.sej_spe, r.sdt_docven, r.sdt_docval,
       r.sdt_smere, r.sdt_doccre, r.sdt_doccref, r.sdt_emere, r.sdt_status >>

\* the candidates of the stay id that no other candidate precedes
RankOne(id) ==
    {k \in CandidatesOf(id) :
        \A k2 \in CandidatesOf(id) : ~LexLess(SortKey(data[k2]), SortKey(data[k]))}

\* C21: the match fields of the row selected for a stay with candidates are
\* the match fields of one candidate pair, a rank-1 candidate of the ordering;
\* no field comes from a lower-ranked candidate
C21_OneCandidate ==
    pc = "merged" =>
        \A b \in Rows(data_best) :
            CandidatesOf(data_best[b].sej_id) # {} =>
                \E k \in RankOne(data_best[b].sej_id) :
                    MatchFields(data[k]) = MatchFields(data_best[b])

\* the same statement for the stays whose rank-1 candidates hold no null
\* match field
C21_NoNullFirst ==
    pc = "merged" =>
        \A b \in Rows(data_best) :
            (/\ CandidatesOf(data_best[b].sej_id) # {}
             /\ \A k \in RankOne(data_best[b].sej_id) :
                   /\ notna(data[k].doc_val)
                   /\ notna(data[k].del_sorval)
                   /\ notna(data[k].sej_spe)) =>
                \E k \in RankOne(data_best[b].sej_id) :
                    MatchFields(data[k]) = MatchFields(data_best[b])

----------------------------------------------------------------------------
(* C22 *)

\* C22: no stay is classified before the merge, with its handling of the
\* documents selected by several stays, has returned; the class of a stay is
\* computed from the raw delay its row holds after that handling: a stay whose
\* raw delay was set to null is sansLL, and a stay classified 0j or 1j+ has the
\* clamped raw delay of its returned row as del_val
C22_ResolvedBeforeClassified ==
    /\ ~Classified => classified.rows = << >>
    /\ Classified =>
          /\ Len(classified.rows) = Len(data_final)
          /\ \A k \in Rows(classified.rows) :
                LET r == classified.rows[k]
                IN /\ r.sej_id = data_final[k].sej_id
                   /\ r.del_sorval = data_final[k].del_sorval
                   /\ r.sej_classe \in {"0j", "1j+"} =>
                         /\ notna(data_final[k].del_sorval)
                         /\ r.del_val = Some(Max0(Val(data_final[k].del_sorval)))
          /\ \A i \in Rows(data_best) :
                (LosesDocument(i) /\ notna(data_best[i].del_sorval)) =>
                    \A k \in RowsOfSejour(classified.rows, data_best[i].sej_id) :
                        classified.rows[k].sej_classe = "sansLL"

\* two stays selected the same document with the raw delay 0: the first is
\* classified 0j, the second, whose raw delay was set to null, sansLL
C22_Witness ==
    /\ Classified
    /\ \E i, j \in Rows(data_best) :
          /\ i < j
          /\ notna(data_best[i].doc_id)
          /\ data_best[i].doc_id = data_best[j].doc_id
          /\ data_best[i].del_sorval = Some(0)
          /\ data_best[j].del_sorval = Some(0)
          /\ \E k \in RowsOfSejour(classified.rows, data_best[i].sej_id) :
                classified.rows[k].sej_classe = "0j"
          /\ \E k \in RowsOfSejour(classified.rows, data_best[j].sej_id) :
                /\ isna(classified.rows[k].del_sorval)
                /\ classified.rows[k].sej_classe = "sansLL"

----------------------------------------------------------------------------
(* C23 *)

\* C23: for every candidate pair sdt_docval is true exactly when the document
\* has a validation timestamp that is on or after the admission of the stay
\* and on or after its discharge minus 3 days; a pair whose document was never
\* validated is not eligible and has no raw delay (looked at when the merge
\* returns: no later step writes the candidate table)
C23_ValidationWindow ==
    pc = "merged" =>
        \A k \in Rows(data) :
            /\ data[k].sdt_docval <=>
                  /\ notna(data[k].doc_val)
                  /\ Val(data[k].doc_val) >= data[k].sej_ent
                  /\ Val(data[k].doc_val) >= data[k].sej_sor - 3 * TicksPerDay
            /\ isna(data[k].doc_val) =>
                  /\ ~data[k].sdt_docval
                  /\ ~data[k].sdt_status
                  /\ isna(data[k].del_sorval)

\* a document validated three days before the discharge and one day before
\* the admission, next to a pair inside the window
C23_Witness ==
    /\ Merged
    /\ \E k \in Rows(data) :
          /\ notna(data[k].doc_val)
          /\ Val(data[k].doc_val) = data[k].sej_sor - 3 * TicksPerDay
          /\ Val(data[k].doc_val) < data[k].sej_ent
          /\ ~data[k].sdt_docval
          /\ isna(data[k].del_sorval)
    /\ \E k \in Rows(data) : data[k].sdt_docval /\ notna(data[k].del_sorval)

----------------------------------------------------------------------------
(* C24 *)

\* the selected document of row i of data_best is selected by another stay too
Contested(i) ==
    notna(data_best[i].doc_id) /\ Val(data_best[i].doc_id) \in ContestedDocs

\* C24: the handling of the documents selected by several stays keeps the rows
\* and their order; the row of a stay without a document, of a stay whose
\* document no other stay selected, and of the stay that keeps a contested
\* document is unchanged in every field, and the row of a stay that loses a
\* contested document is unchanged in every field but del_sorval
C24_ResolutionFrame ==
    pc = "merged" =>
        /\ Len(data_final) = Len(data_best)
        /\ \A i \in Rows(data_best) :
              /\ data_final[i] \in {data_best[i], [data_best[i] EXCEPT !.del_sorval = Null]}
              /\ ~Contested(i) => data_final[i] = data_best[i]
              /\ ~LosesDocument(i) => data_final[i] = data_best[i]
        /\ \A d \in ContestedDocs :
              \E i \in Claimants(d) : data_final[i] = data_best[i]

\* a stay loses the raw delay 1 on a document that another stay keeps with
\* the raw delay 0
C24_Witness ==
    /\ Merged
    /\ \E i, j \in Rows(data_best) :
          /\ Contested(i)
          /\ data_best[j].doc_id = data_best[i].doc_id
          /\ data_best[i].del_sorval = Some(1)
          /\ data_final[i] = [data_best[i] EXCEPT !.del_sorval = Null]
          /\ data_final[j].del_sorval = Some(0)
          /\ data_final[j] = data_best[j]

----------------------------------------------------------------------------
(* C25 *)

\* the number of the rows classified 0j or 1j+
NbClassified(rows) ==
    Cardinality({i \in Rows(rows) : rows[i].sej_classe \in {"0j", "1j+"}})

\* the rows of the classified table with the specialty spe
RowsOfSpecialite(spe) ==
    SelectSeq2(classified.rows,
        {i \in Rows(classified.rows) : classified.rows[i].sej_spe_final = Some(spe)})

\* C25: the number and the percentage of validated stays that
\* calculate_validation_stats reports, for the whole table and for each
\* specialty, count exactly the stays classified 0j or 1j+
C25_ValidatedAreClassified ==
    pc = "validation" =>
        /\ Val(stats_validation).nb_sejours_valides = NbClassified(classified.rows)
        /\ SameNumber(Val(stats_validation).pct_sejours_validees,
                      Fraction(100 * NbClassified(classified.rows), Len(classified.rows)))
        /\ \A k \in Rows(Val(stats_validation).par_specialite_all) :
              LET g == Val(stats_validation).par_specialite_all[k]
              IN /\ g.nb_sejours_valides = NbClassified(RowsOfSpecialite(g.specialite))
                 /\ SameNumber(g.pct_sejours_validees,
                        Fraction(100 * NbClassified(RowsOfSpecialite(g.specialite)),
                                 Len(RowsOfSpecialite(g.specialite))))

\* the reported numbers are never below the number of the stays classified
\* 0j or 1j+
C25_AtLeastClassified ==
    pc = "validation" =>
        /\ Val(stats_validation).nb_sejours_valides >= NbClassified(classified.rows)
        /\ \A k \in Rows(Val(stats_validation).par_specialite_all) :
              LET g == Val(stats_validation).par_specialite_all[k]
              IN g.nb_sejours_valides >= NbClassified(RowsOfSpecialite(g.specialite))

\* the statement of C25 for the runs with the mapping
C25_WithMapping == matrice_ok => C25_ValidatedAreClassified

----------------------------------------------------------------------------
(* C26 *)

\* the queries get_sejours_data executed
SejourQueries == {i \in Rows(queries) : queries[i].db = "gam"}

HasFilter(q, kind) == \E k \in Rows(q.filters) : q.filters[k].kind = kind

\* C26: the default period is part of the stay query exactly when no start
\* date, no end date and no stay list is given
C26_DefaultPeriod ==
    \A i \in SejourQueries :
        HasFilter(queries[i], "default") <=>
            /\ ~Truthy(request.start_date)
            /\ ~Truthy(request.end_date)
            /\ ~Truthy(request.sejour_list)

\* the default period is part of the stay query exactly when a date is
\* missing and no stay list is given
C26_BothDatesOrList ==
    \A i \in SejourQueries :
        HasFilter(queries[i], "default") <=>
            /\ ~(Truthy(request.start_date) /\ Truthy(request.end_date))
            /\ ~Truthy(request.sejour_list)

----------------------------------------------------------------------------
(* C27 *)

\* the table classify_sejours_iql returns when it is handed its own output,
\* as in calculate_validation_stats (line 514) and calculate_diffusion_stats
Reclassified == classify_sejours_iql(classified, matrice_ok).rows

\* the tables a and b have the same stays in the same rows, with the same
\* final specialty, final delay and class
SameClassification(a, b) ==
    /\ Len(a) = Len(b)
    /\ \A k \in Rows(a) :
          /\ a[k].sej_id = b[k].sej_id
          /\ a[k].sej_spe_final = b[k].sej_spe_final
          /\ Column(a[k], "del_val") = Column(b[k], "del_val")
          /\ a[k].sej_classe = b[k].sej_classe

\* C27: classifying the classified table again gives the same number of rows
\* and the same final specialty, final delay and class for every stay
C27_Idempotent ==
    pc = "classified" => SameClassification(Reclassified, classified.rows)

\* a classified table without any specialty although the mapping is loaded:
\* the first pass made the join with the mapping and the second makes it again
C27_Witness ==
    /\ pc = "classified"
    /\ matrice_ok
    /\ "sej_spe_matrice" \in classified.cols
    /\ \E k \in Rows(classified.rows) : notna(classified.rows[k].del_sorval)
    /\ SameClassification(Reclassified, classified.rows)

\* a classified table with a specialty, classified again
C27_Resolved ==
    ~(/\ pc = "classified"
      /\ \E k \in Rows(classified.rows) : classified.rows[k].sej_classe = "0j"
      /\ ~SameClassification(Reclassified, classified.rows))

----------------------------------------------------------------------------
(* C28 *)

\* the candidate pair of row k of data is made of a stay with a patient id
\* and a document with the same patient id
SharedPatientId(k) ==
    \E i \in Rows(sejours) : \E j \in Rows(documents) :
        /\ sejours[i].sej_id = data[k].sej_id
        /\ Some(documents[j].doc_id) = data[k].doc_id
        /\ notna(sejours[i].pat_ipp)
        /\ documents[j].pat_ipp = sejours[i].pat_ipp

\* C28: every candidate pair is made of a stay and a document with the same
\* valid patient id; a stay without a valid patient id is paired with no
\* document
C28_ValidPatientId ==
    pc = "merged" =>
        \A k \in Rows(data) : notna(data[k].doc_id) => SharedPatientId(k)

\* the same statement for the stays that have a valid patient id
C28_StaysWithId ==
    pc = "merged" =>
        \A k \in Rows(data) :
            (notna(data[k].doc_id) /\ data[k].pat_ipp # "None") => SharedPatientId(k)

----------------------------------------------------------------------------
(* C29 *)

\* the stay list of the request has entries and all of them are blank
BlankList ==
    /\ Truthy(request.sejour_list)
    /\ \A i \in Rows(Val(request.sejour_list)) : Strip(Val(request.sejour_list)[i]) = << >>

\* C29: every stay query that get_sejours_data executes holds at least one
\* filter: a date range, the default period or a list of stay numbers
C29_RestrictedQuery ==
    \A i \in SejourQueries : queries[i].filters # << >>

\* the same statement for the requests of /api/report/by-sejours
C29_BySejours ==
    request.caller = "by-sejours" => C29_RestrictedQuery

\* the same statement for the requests whose stay list is not a list of blank
\* entries
C29_NoBlankList ==
    ~BlankList => C29_RestrictedQuery

----------------------------------------------------------------------------
(* C30 *)

\* get_sejours_data or get_documents_data has been left, by a return or by
\* an exception, of the try block or of the finally block
QueryFunctionLeft ==
    pc \in {"get_documents_data", "returned", "raised", "raised_in_finally"}

\* the connections that are open
OpenConnections == {i \in Rows(connections) : ~connections[i].closed}

\* C30: when a query function is left, by a return or by an exception raised
\* at any of its steps, every connection opened so far is closed and the
\* connector refers to none; a connector opens at most one connection to each
\* database between two calls of disconnect_all, and every open connection is
\* one it refers to
C30_ConnectionsClosed ==
    /\ QueryFunctionLeft =>
          /\ OpenConnections = {}
          /\ conn_gam = Null
          /\ conn_esl = Null
    /\ opened.gam <= 1
    /\ opened.esl <= 1
    /\ OpenConnections = conn_gam \cup conn_esl

\* get_sejours_data is left by the exception of close() in its finally block
\* after its query was executed: the connection to GAM is open and the
\* connector refers to it
C30_CloseRaised ==
    /\ pc = "raised_in_finally"
    /\ \E i \in Rows(queries) : queries[i].db = "gam"
    /\ OpenConnections # {}
    /\ conn_gam # Null

\* what holds of every exit: a function left by a return, or by an exception
\* of its try block with every close() succeeding, has closed every connection
\* and refers to none; at most one connection to each database is open, and
\* every open connection is one the connector refers to
C30_ClosedUnlessCloseRaises ==
    /\ pc \in {"get_documents_data", "returned", "raised"} =>
          /\ OpenConnections = {}
          /\ conn_gam = Null
          /\ conn_esl = Null
    /\ \A db \in {"gam", "esl"} :
          Cardinality({i \in OpenConnections : connections[i].db = db}) <= 1
    /\ OpenConnections = conn_gam \cup conn_esl

\* get_documents_data raised after its query was read: the connection to GAM
\* and the connection to EASILY were opened and both are closed
C30_BothClosed ==
    /\ pc = "raised"
    /\ \E i \in Rows(queries) : queries[i].db = "esl"
    /\ Len(connections) = 2
    /\ OpenConnections = {}

====
